---------------------------- MODULE Spec2Model ----------------------------
(***************************************************************************)
(* lightwatcher: the daemon connection pool (bird.rs), the routes worker   *)
(* pool (parsers/routes_worker.rs) and the response cache (api/cache.rs,   *)
(* api/responses.rs), each as a state machine translated from its source.  *)
(***************************************************************************)
EXTENDS Integers, Sequences, FiniteSets, Bags, TLC

VARIABLES
    \* ---- connection pool (bird.rs) ----
    limit,      \* ConnectionPool::start(limit)
    size,       \* the dispatcher's local counter
    dpc,        \* the dispatcher's position in its loop
    dcur,       \* the caller whose ConnectionRequest the dispatcher holds (0: none)
    requests,   \* the request channel (mpsc, capacity limit): caller ids
    lockq,      \* number of () messages in the release channel (capacity limit)
    pc,         \* each caller's position in its Birdc call
    wrapper,    \* each caller's Connection wrapper: "none", "held", "dropped"
    relTask,    \* the task Drop spawns: "none", "pending", "sent"
    relSent,    \* number of messages a wrapper has put on the release channel
    sock,       \* the caller's UnixStream to the daemon is open
    \* ---- routes worker pool (parsers/routes_worker.rs) ----
    numWorkers, \* config::get_routes_worker_pool_size()
    fpc,        \* each request's feeder task: "feeding" or "done"
    submitted,  \* the blocks each feeder has passed to accept_block, in order
    jobs,       \* the pool's job channel
    djob,       \* the job the pool dispatcher has received and not yet handed on
    nextWorker, \* next_worker of the pool dispatcher
    wq,         \* each worker's job channel
    wres,       \* the result a worker has parsed and not yet sent
    sink,       \* each request's results channel
    rxOpen,     \* the request's results receiver has not been dropped
    received,   \* the bag of results the request's handler has received
    poison,     \* the block of the replies on which PrefixGroup::parse panics, if any
    walive,     \* per worker: its thread has not panicked
    dalive,     \* the thread of the pool dispatcher has not panicked
    dispatched, \* the jobs the dispatcher has received, each with its worker
    \* ---- response cache (api/cache.rs, api/responses.rs) ----
    maxEntries, \* CacheConfig.max_entries
    ttl,        \* CacheConfig.ttl, in seconds
    now,        \* the wall clock Utc::now() reads, in seconds
    responses,  \* ResponseCache.responses: key -> stamped response
    nputs,      \* number of put calls so far
    lastPut,    \* the last put: its key, the value passed in, the stamps it set
    \* ---- rate limiter (api/rate_limit.rs) ----
    rlRequests, \* RateLimitConfig.requests
    rlWindow,   \* RateLimitConfig.window, in seconds
    rlNow,      \* the wall clock Utc::now() reads, in seconds
    buckets,    \* RateLimiter.buckets: key -> [count, window_start]
    allowed,    \* per key: the checks allowed since the bucket's window_start
    nchecks,    \* number of check_rate_limit calls so far
    lastCheck,  \* the last check: its key, its clock reading, its result
    \* ---- query values and daemon commands (bird.rs) ----
    qTable,     \* the result of TableID::parse / ProtocolID::parse on a path parameter
    qPeer,      \* the result of PeerID::parse on a path parameter
    qCmd,       \* the last command text a show_route_all_* call has built
    \* ---- block framers and readers (parsers/parser.rs) ----
    finput,     \* the lines of the reader (or of the buffered block), in order
    fstop,      \* BlockIterator.stop is configured (with_stop)
    fuser,      \* who drives the framer: "blocks", "protocols", "neighbors", "group"
    fpos,       \* number of lines the line iterator has handed out
    yielded,    \* the blocks next has returned so far, in order
    records,    \* the records a reader has returned so far, in order
    fended,     \* next has returned None at least once
    \* ---- endpoint handlers (api/routes.rs, api/status.rs) ----
    hpc,        \* the handler's position: "idle", "validate", "lookup", "fetch", "recv", "put", "done"
    hEndpoint,  \* the endpoint called
    hTable,     \* the table or protocol path parameter
    hPeer,      \* the peer path parameter (table/peer endpoint)
    hCutoff,    \* the cutoff the handler has read from the configuration
    hReply,     \* the lines of the daemon's reply to the command written
    hPending,   \* results of the worker pool the handler has not received yet
    hRoutes,    \* routes.len()
    hEffects,   \* what the handler has done: cache reads and puts, acquires, commands
    hResponse,  \* what the caller gets
    \* ---- protocol parser and reader (parsers/protocols.rs) ----
    pInput,     \* the lines of the daemon's reply to "show protocols all"
    pFilter,    \* ProtocolReader.filter_bgp
    pChecks,    \* the build panics on integer overflow (overflow-checks)
    pPos,       \* number of lines the reader's line iterator has handed out
    pLog,       \* the blocks Protocol::parse was called on, with its results
    pRecords,   \* the protocols next has returned so far, in order
    pOutcome,   \* "reading", "ended" (next returned None) or "panicked"
    pAgain,     \* a second Protocol::parse of a block the reader parsed
    \* ---- route parser (parsers/routes.rs) ----
    rBlock,     \* the lines of the block handed to PrefixGroup::parse
    rResult,    \* what PrefixGroup::parse returned for it
    \* ---- concurrent requests on one endpoint cache (api/routes.rs) ----
    mMax,       \* max_entries of the endpoint's cache
    mNow,       \* the wall clock, in seconds
    mResponses, \* the cache's map
    mMutex,     \* the invocation that holds the cache mutex, 0 for none
    mpc,        \* per invocation: its position in the handler
    mMissed,    \* the invocations whose lookup returned None
    mFetched,   \* the invocations that had a dialog with the daemon
    mPuts       \* the values put into the cache, in the order of the puts

poolVars == <<limit, size, dpc, dcur, requests, lockq, pc, wrapper, relTask,
              relSent, sock>>

workerVars == <<numWorkers, fpc, submitted, jobs, djob, nextWorker, wq, wres,
                sink, rxOpen, received, poison, walive, dalive, dispatched>>

cacheVars == <<maxEntries, ttl, now, responses, nputs, lastPut>>

limiterVars == <<rlRequests, rlWindow, rlNow, buckets, allowed, nchecks, lastCheck>>

queryVars == <<qTable, qPeer, qCmd>>

framerVars == <<finput, fstop, fuser, fpos, yielded, records, fended>>

handlerVars == <<hpc, hEndpoint, hTable, hPeer, hCutoff, hReply, hPending, hRoutes,
                 hEffects, hResponse>>

protocolVars == <<pInput, pFilter, pChecks, pPos, pLog, pRecords, pOutcome, pAgain>>

routeVars == <<rBlock, rResult>>

missVars == <<mMax, mNow, mResponses, mMutex, mpc, mMissed, mFetched, mPuts>>

vars == <<poolVars, workerVars, cacheVars, limiterVars, queryVars, framerVars,
          handlerVars, protocolVars, routeVars, missVars>>

nonPoolVars == <<workerVars, cacheVars, limiterVars, queryVars, framerVars, handlerVars,
    protocolVars, routeVars, missVars>>
nonWorkerVars == <<poolVars, cacheVars, limiterVars, queryVars, framerVars, handlerVars,
    protocolVars, routeVars, missVars>>
nonCacheVars == <<poolVars, workerVars, limiterVars, queryVars, framerVars, handlerVars,
    protocolVars, routeVars, missVars>>
nonLimiterVars == <<poolVars, workerVars, cacheVars, queryVars, framerVars, handlerVars,
    protocolVars, routeVars, missVars>>
nonQueryVars == <<poolVars, workerVars, cacheVars, limiterVars, framerVars, handlerVars,
    protocolVars, routeVars, missVars>>
nonFramerVars == <<poolVars, workerVars, cacheVars, limiterVars, queryVars, handlerVars,
    protocolVars, routeVars, missVars>>
nonHandlerVars == <<poolVars, workerVars, cacheVars, limiterVars, queryVars, framerVars,
    protocolVars, routeVars, missVars>>
nonProtocolVars == <<poolVars, workerVars, cacheVars, limiterVars, queryVars, framerVars,
    handlerVars, routeVars, missVars>>
nonRouteVars == <<poolVars, workerVars, cacheVars, limiterVars, queryVars, framerVars,
    handlerVars, protocolVars, missVars>>
nonMissVars == <<poolVars, workerVars, cacheVars, limiterVars, queryVars, framerVars,
    handlerVars, protocolVars, routeVars>>

--------------------------------------------------------------------------
(* Bounds *)

NumCallers == 4
MaxLimit == 2

Callers == 1..NumCallers

NumRequests == 2    \* concurrent routes requests
MaxBlocks == 3      \* blocks the daemon sends in one run, over all replies
MaxWorkers == 2     \* configured worker pool sizes 0..MaxWorkers
ChannelDepth == 1   \* stands for the depth 64 of the mpsc channels

Requests == 1..NumRequests

MaxEntries == 2     \* configured cache capacities 1..MaxEntries
MaxPuts == 3        \* put calls in one run
LongTTL == 600      \* a configured LIGHTWATCHER_ROUTES_CACHE_TTL above the default

MaxRate == 2        \* configured LIGHTWATCHER_RATE_LIMIT_REQUESTS 0..MaxRate
MaxRateWindow == 2  \* configured LIGHTWATCHER_RATE_LIMIT_WINDOW 1..MaxRateWindow
MaxChecks == 5      \* check_rate_limit calls in one run
MaxClock == 6       \* the run ends at this clock reading

MaxHead == 1        \* leading characters of a path parameter chosen freely

MaxLines == 3       \* lines of a daemon reply (or of a buffered block)

MaxCutoff == 2      \* configured LIGHTWATCHER_ROUTES_PROTOCOL_CUTOFF 1..MaxCutoff

MaxProtocolBlocks == 2  \* blocks of a reply to "show protocols all"

MaxGroupRoutes == 3     \* route blocks of a block handed to PrefixGroup::parse

NumInvocations == 2     \* handler invocations running at the same time
MaxMissClock == 2       \* the last clock reading of their run

\* 2^16: a u32 is kept as two halves of 16 bits
Half == 65536

--------------------------------------------------------------------------
(* Connection pool: bird.rs *)

\* ConnectionPool::start: "if size > limit" decides whether the dispatcher
\* waits for a release before it issues.
MustWait(sz, lim) == sz > lim

\* "size -= 1" on the usize counter. At 0 the subtraction overflows: the
\* dispatcher then leaves its loop in the position "underflow" (a panic in a
\* build with overflow checks, a wrapped counter without), which the model
\* follows no further.
Decrement(sz) == IF sz > 0 THEN sz - 1 ELSE sz

\* impl Drop for Connection: the drop spawns one task that sends one () on
\* the lock channel.
DropConnection(c) ==
    /\ wrapper' = [wrapper EXCEPT ![c] = "dropped"]
    /\ relTask' = [relTask EXCEPT ![c] = "pending"]

PoolInit ==
    /\ limit \in 1..MaxLimit
    /\ size = 0
    /\ dpc = "recv"
    /\ dcur = 0
    /\ requests = <<>>
    /\ lockq = 0
    /\ pc = [c \in Callers |-> "idle"]
    /\ wrapper = [c \in Callers |-> "none"]
    /\ relTask = [c \in Callers |-> "none"]
    /\ relSent = [c \in Callers |-> 0]
    /\ sock = [c \in Callers |-> FALSE]

\* ConnectionPool::acquire, first half: requests.send(conn_tx).await
\* (the channel holds at most limit requests).
Acquire(c) ==
    /\ UNCHANGED nonPoolVars
    /\ pc[c] = "idle"
    /\ Len(requests) < limit
    /\ requests' = Append(requests, c)
    /\ pc' = [pc EXCEPT ![c] = "queued"]
    /\ UNCHANGED <<limit, size, dpc, dcur, lockq, wrapper, relTask, relSent, sock>>

\* The future of acquire is dropped while it awaits conn_rx (the handler is
\* cancelled): the oneshot receiver is gone.
CancelAcquire(c) ==
    /\ UNCHANGED nonPoolVars
    /\ pc[c] = "queued"
    /\ pc' = [pc EXCEPT ![c] = "cancelled"]
    /\ UNCHANGED <<limit, size, dpc, dcur, requests, lockq, wrapper, relTask,
                   relSent, sock>>

\* Dispatcher: req_rx.recv().await, then the test of size against limit.
DispRecv ==
    /\ UNCHANGED nonPoolVars
    /\ dpc = "recv"
    /\ requests # <<>>
    /\ dcur' = Head(requests)
    /\ requests' = Tail(requests)
    /\ dpc' = IF MustWait(size, limit) THEN "wait" ELSE "issue"
    /\ UNCHANGED <<limit, size, lockq, pc, wrapper, relTask, relSent, sock>>

\* Dispatcher: lock_rx.recv().await.is_some() => size -= 1
DispWait ==
    /\ UNCHANGED nonPoolVars
    /\ dpc = "wait"
    /\ lockq > 0
    /\ lockq' = lockq - 1
    /\ size' = Decrement(size)
    /\ dpc' = IF size > 0 THEN "drain" ELSE "underflow"
    /\ UNCHANGED <<limit, dcur, requests, pc, wrapper, relTask, relSent, sock>>

\* Dispatcher: while lock_rx.try_recv().is_ok() { size -= 1 }
DispDrain ==
    /\ UNCHANGED nonPoolVars
    /\ dpc = "drain"
    /\ IF lockq > 0
          THEN /\ lockq' = lockq - 1
               /\ size' = Decrement(size)
               /\ dpc' = IF size > 0 THEN "drain" ELSE "underflow"
          ELSE /\ dpc' = "issue"
               /\ UNCHANGED <<lockq, size>>
    /\ UNCHANGED <<limit, dcur, requests, pc, wrapper, relTask, relSent, sock>>

\* Dispatcher: conn_tx.send(conn); on a dropped request the fresh wrapper is
\* dropped and size is left alone, otherwise size += 1.
DispIssue ==
    /\ UNCHANGED nonPoolVars
    /\ dpc = "issue"
    /\ IF pc[dcur] = "cancelled"
          THEN /\ DropConnection(dcur)
               /\ UNCHANGED <<size, pc>>
          ELSE /\ wrapper' = [wrapper EXCEPT ![dcur] = "held"]
               /\ pc' = [pc EXCEPT ![dcur] = "held"]
               /\ size' = size + 1
               /\ UNCHANGED relTask
    /\ dpc' = "recv"
    /\ dcur' = 0
    /\ UNCHANGED <<limit, requests, lockq, relSent, sock>>

\* Mutant of Open: a failed connect releases the slot at once.
Open_DropsOnFailure(c) ==
    /\ UNCHANGED nonPoolVars
    /\ pc[c] = "held"
    /\ \E ok \in BOOLEAN :
          /\ pc' = [pc EXCEPT ![c] = IF ok THEN "opened" ELSE "openfail"]
          /\ sock' = [sock EXCEPT ![c] = ok]
          /\ IF ok THEN UNCHANGED <<wrapper, relTask>> ELSE DropConnection(c)
    /\ UNCHANGED <<limit, size, dpc, dcur, requests, lockq, relSent>>

\* Connection::open: UnixStream::connect(addr) succeeds or fails; the
\* wrapper is a temporary of the let statement and is still alive.
Open(c) ==
    /\ UNCHANGED nonPoolVars
    /\ pc[c] = "held"
    /\ \E ok \in BOOLEAN :
          /\ pc' = [pc EXCEPT ![c] = IF ok THEN "opened" ELSE "openfail"]
          /\ sock' = [sock EXCEPT ![c] = ok]
    /\ UNCHANGED <<limit, size, dpc, dcur, requests, lockq, wrapper, relTask, relSent>>

\* End of "let mut stream = POOL.acquire().await.open(..)?;": the temporary
\* Connection is dropped; on Err the call returns, on Ok the dialog begins.
EndOfLet(c) ==
    /\ UNCHANGED nonPoolVars
    /\ pc[c] \in {"opened", "openfail"}
    /\ DropConnection(c)
    /\ pc' = [pc EXCEPT ![c] = IF pc[c] = "opened" THEN "dialog" ELSE "done"]
    /\ UNCHANGED <<limit, size, dpc, dcur, requests, lockq, relSent, sock>>

\* The command is written, the reply read to its end and the stream dropped.
FinishDialog(c) ==
    /\ UNCHANGED nonPoolVars
    /\ pc[c] = "dialog"
    /\ sock' = [sock EXCEPT ![c] = FALSE]
    /\ pc' = [pc EXCEPT ![c] = "done"]
    /\ UNCHANGED <<limit, size, dpc, dcur, requests, lockq, wrapper, relTask, relSent>>

\* The task spawned by Drop: lock.send(()).await (capacity limit).
ReleaseSend(c) ==
    /\ UNCHANGED nonPoolVars
    /\ relTask[c] = "pending"
    /\ lockq < limit
    /\ lockq' = lockq + 1
    /\ relTask' = [relTask EXCEPT ![c] = "sent"]
    /\ relSent' = [relSent EXCEPT ![c] = @ + 1]
    /\ UNCHANGED <<limit, size, dpc, dcur, requests, pc, wrapper, sock>>

PoolNext ==
    \/ \E c \in Callers : Acquire(c)
    \/ \E c \in Callers : CancelAcquire(c)
    \/ DispRecv
    \/ DispWait
    \/ DispDrain
    \/ DispIssue
    \/ \E c \in Callers : Open(c)
    \/ \E c \in Callers : EndOfLet(c)
    \/ \E c \in Callers : FinishDialog(c)
    \/ \E c \in Callers : ReleaseSend(c)

PoolIdle ==
    /\ limit = 1
    /\ size = 0
    /\ dpc = "recv"
    /\ dcur = 0
    /\ requests = <<>>
    /\ lockq = 0
    /\ pc = [c \in Callers |-> "done"]
    /\ wrapper = [c \in Callers |-> "none"]
    /\ relTask = [c \in Callers |-> "none"]
    /\ relSent = [c \in Callers |-> 0]
    /\ sock = [c \in Callers |-> FALSE]

--------------------------------------------------------------------------
(* Routes worker pool: parsers/routes_worker.rs, Birdc::fetch_routes_cmd *)

\* A block of a daemon reply: which request's reply, its place in the reply,
\* whether PrefixGroup::parse returns Err on it, and whether it panics on it.
Blocks == [src : Requests, n : 1..MaxBlocks, bad : BOOLEAN, panics : BOOLEAN]

\* No block of the replies makes PrefixGroup::parse panic.
NoPoison == <<>>

\* The number of blocks the feeders have submitted so far.
RECURSIVE TotalSubmitted(_)
TotalSubmitted(n) == IF n = 0 THEN 0 ELSE Len(submitted[n]) + TotalSubmitted(n - 1)

\* The n-th block of the daemon's reply to request r. Whether a block parses
\* or gives Err has no influence on the pool's control flow; the replies mix
\* both kinds. At most one block of the replies makes the parser panic.
ReplyBlock(r, n) ==
    [src |-> r, n |-> n, bad |-> (r + n) % 2 = 0, panics |-> <<r, n>> = poison]

\* PrefixGroup::parse(block): Ok(prefix group) or Err, a function of the
\* block, for a block on which the call returns.
ParsePrefixGroup(block) ==
    IF block.bad THEN [tag |-> "Err", of |-> <<block.src, block.n>>]
                 ELSE [tag |-> "Ok", group |-> <<block.src, block.n>>]

\* PrefixGroup::parse(block) panics: parse_large_communities unwraps the parse
\* of each part of a tuple, parse_community slices its item from 1 to len - 1.
ParsePanics(block) == block.panics

\* results.is_closed() / the Err of blocking_send: the receiver is dropped.
IsClosed(r) == ~rxOpen[r]

\* "next_worker = (next_worker + 1) % num_workers"
RoundRobin(nw, n) == (nw + 1) % n

WorkerIds == 0..(numWorkers - 1)

WorkersIdle ==
    /\ numWorkers = 1
    /\ fpc = [r \in Requests |-> "done"]
    /\ submitted = [r \in Requests |-> <<>>]
    /\ jobs = <<>>
    /\ djob = <<>>
    /\ nextWorker = 0
    /\ wq = [w \in 0..0 |-> <<>>]
    /\ wres = [w \in 0..0 |-> <<>>]
    /\ sink = [r \in Requests |-> <<>>]
    /\ rxOpen = [r \in Requests |-> FALSE]
    /\ received = [r \in Requests |-> EmptyBag]
    /\ poison = NoPoison
    /\ walive = [w \in 0..0 |-> TRUE]
    /\ dalive = TRUE
    /\ dispatched = <<>>

\* RoutesWorkerPool::start and, per request, fetch_routes_cmd up to the spawn
\* of its feeder: the results channel exists and the handler holds its receiver.
WorkersInit ==
    /\ numWorkers \in 0..MaxWorkers
    /\ fpc = [r \in Requests |-> "feeding"]
    /\ submitted = [r \in Requests |-> <<>>]
    /\ jobs = <<>>
    /\ djob = <<>>
    /\ nextWorker = 0
    /\ wq = [w \in WorkerIds |-> <<>>]
    /\ wres = [w \in WorkerIds |-> <<>>]
    /\ sink = [r \in Requests |-> <<>>]
    /\ rxOpen = [r \in Requests |-> TRUE]
    /\ received = [r \in Requests |-> EmptyBag]
    /\ poison \in {NoPoison} \cup (Requests \X (1..MaxBlocks))
    /\ walive = [w \in WorkerIds |-> TRUE]
    /\ dalive = TRUE
    /\ dispatched = <<>>

\* The feeder's loop body: the framer yields the next block and
\* accept_block(block, results_tx.clone()).await queues the job. When the
\* pool dispatcher is gone the send fails and the feeder task panics.
FeedBlock(r) ==
    /\ fpc[r] = "feeding"
    /\ TotalSubmitted(NumRequests) < MaxBlocks
    /\ LET block == ReplyBlock(r, Len(submitted[r]) + 1)
       IN /\ submitted' = [submitted EXCEPT ![r] = Append(@, block)]
          /\ IF dalive
                THEN /\ Len(jobs) < ChannelDepth
                     /\ jobs' = Append(jobs, [block |-> block, results |-> r])
                     /\ UNCHANGED fpc
                ELSE /\ fpc' = [fpc EXCEPT ![r] = "panicked"]
                     /\ UNCHANGED jobs
    /\ UNCHANGED <<numWorkers, djob, nextWorker, wq, wres, sink, rxOpen, received>>
    /\ UNCHANGED <<poison, walive, dalive>>
    /\ UNCHANGED dispatched
    /\ UNCHANGED nonWorkerVars

\* The framer is exhausted: the feeder task ends and drops its results_tx.
FeederEnd(r) ==
    /\ fpc[r] = "feeding"
    /\ fpc' = [fpc EXCEPT ![r] = "done"]
    /\ UNCHANGED <<numWorkers, submitted, jobs, djob, nextWorker, wq, wres, sink,
                   rxOpen, received, poison, walive, dalive>>
    /\ UNCHANGED dispatched
    /\ UNCHANGED nonWorkerVars

\* Pool dispatcher: jobs_rx.blocking_recv(), then the round robin step. The
\* remainder by num_workers panics when no worker is configured: the job and
\* the jobs in the pool's queue are dropped with the dispatcher's thread.
DispatchRecv ==
    /\ dalive
    /\ djob = <<>>
    /\ jobs # <<>>
    /\ IF numWorkers = 0
          THEN /\ dalive' = FALSE
               /\ jobs' = <<>>
               /\ dispatched' = Append(dispatched, [job |-> Head(jobs), worker |-> <<>>])
               /\ UNCHANGED <<djob, nextWorker>>
          ELSE /\ djob' = <<Head(jobs)>>
               /\ jobs' = Tail(jobs)
               /\ nextWorker' = RoundRobin(nextWorker, numWorkers)
               /\ dispatched' = Append(dispatched,
                                    [job |-> Head(jobs),
                                     worker |-> <<RoundRobin(nextWorker, numWorkers)>>])
               /\ UNCHANGED dalive
    /\ UNCHANGED <<numWorkers, fpc, submitted, wq, wres, sink, rxOpen, received>>
    /\ UNCHANGED <<poison, walive>>
    /\ UNCHANGED nonWorkerVars

\* Pool dispatcher: workers[next_worker].accept(job), a blocking_send. When
\* the worker's thread is gone the send fails: "worker stopped" is logged and
\* the dispatcher panics; its job and the jobs in the pool's queue are dropped.
DispatchAccept ==
    /\ dalive
    /\ djob # <<>>
    /\ IF walive[nextWorker]
          THEN /\ Len(wq[nextWorker]) < ChannelDepth
               /\ wq' = [wq EXCEPT ![nextWorker] = Append(@, djob[1])]
               /\ UNCHANGED <<jobs, dalive>>
          ELSE /\ dalive' = FALSE
               /\ jobs' = <<>>
               /\ UNCHANGED wq
    /\ djob' = <<>>
    /\ UNCHANGED <<numWorkers, fpc, submitted, nextWorker, wres, sink, rxOpen,
                   received, poison, walive>>
    /\ UNCHANGED dispatched
    /\ UNCHANGED nonWorkerVars

\* Worker: blocking_recv a job; skip it when its sink is closed, parse it
\* otherwise. A panic of the parser ends the worker's thread: its receiver
\* and the jobs queued in it are dropped.
WorkerRecv(w) ==
    /\ w \in WorkerIds
    /\ walive[w]
    /\ wres[w] = <<>>
    /\ wq[w] # <<>>
    /\ LET job == Head(wq[w])
       IN IF ~IsClosed(job.results) /\ ParsePanics(job.block)
             THEN /\ walive' = [walive EXCEPT ![w] = FALSE]
                  /\ wq' = [wq EXCEPT ![w] = <<>>]
                  /\ UNCHANGED wres
             ELSE /\ wq' = [wq EXCEPT ![w] = Tail(@)]
                  /\ wres' = [wres EXCEPT ![w] =
                                IF IsClosed(job.results) THEN <<>>
                                ELSE <<[results |-> job.results,
                                        result |-> ParsePrefixGroup(job.block)]>>]
                  /\ UNCHANGED walive
    /\ UNCHANGED <<numWorkers, fpc, submitted, jobs, djob, nextWorker, sink, rxOpen,
                   received, poison, dalive>>
    /\ UNCHANGED dispatched
    /\ UNCHANGED nonWorkerVars

\* Mutant of WorkerSend: a try_send whose result is dropped when the sink is full.
WorkerSend_DropsWhenFull(w) ==
    /\ w \in WorkerIds
    /\ wres[w] # <<>>
    /\ LET r == wres[w][1].results
       IN IF IsClosed(r) \/ Len(sink[r]) >= ChannelDepth
             THEN UNCHANGED sink
             ELSE sink' = [sink EXCEPT ![r] = Append(@, wres[w][1].result)]
    /\ wres' = [wres EXCEPT ![w] = <<>>]
    /\ UNCHANGED <<numWorkers, fpc, submitted, jobs, djob, nextWorker, wq, rxOpen,
                   received, poison, walive, dalive>>
    /\ UNCHANGED dispatched
    /\ UNCHANGED nonWorkerVars

\* Mutant of WorkerSend: the send waits for capacity and never learns that the
\* receiver is gone.
WorkerSend_BlocksOnClosed(w) ==
    /\ w \in WorkerIds
    /\ wres[w] # <<>>
    /\ LET r == wres[w][1].results
       IN /\ ~IsClosed(r)
          /\ Len(sink[r]) < ChannelDepth
          /\ sink' = [sink EXCEPT ![r] = Append(@, wres[w][1].result)]
    /\ wres' = [wres EXCEPT ![w] = <<>>]
    /\ UNCHANGED <<numWorkers, fpc, submitted, jobs, djob, nextWorker, wq, rxOpen,
                   received, poison, walive, dalive>>
    /\ UNCHANGED dispatched
    /\ UNCHANGED nonWorkerVars

\* Worker: results.blocking_send(routes); an Err (receiver dropped) is logged
\* and the loop continues.
WorkerSend(w) ==
    /\ w \in WorkerIds
    /\ wres[w] # <<>>
    /\ LET r == wres[w][1].results
       IN IF IsClosed(r)
             THEN UNCHANGED sink
             ELSE /\ Len(sink[r]) < ChannelDepth
                  /\ sink' = [sink EXCEPT ![r] = Append(@, wres[w][1].result)]
    /\ wres' = [wres EXCEPT ![w] = <<>>]
    /\ UNCHANGED <<numWorkers, fpc, submitted, jobs, djob, nextWorker, wq, rxOpen,
                   received, poison, walive, dalive>>
    /\ UNCHANGED dispatched
    /\ UNCHANGED nonWorkerVars

\* Handler: "while let Some(result) = results.recv().await"
ConsumerRecv(r) ==
    /\ rxOpen[r]
    /\ sink[r] # <<>>
    /\ received' = [received EXCEPT ![r] = @ (+) SetToBag({Head(sink[r])})]
    /\ sink' = [sink EXCEPT ![r] = Tail(@)]
    /\ UNCHANGED <<numWorkers, fpc, submitted, jobs, djob, nextWorker, wq, wres, rxOpen>>
    /\ UNCHANGED <<poison, walive, dalive>>
    /\ UNCHANGED dispatched
    /\ UNCHANGED nonWorkerVars

\* Handler: the receiver is dropped (cutoff, client disconnect, or the end of
\* the handler); what the channel still holds is dropped with it, and the
\* handler's list of results is no longer followed.
DropReceiver(r) ==
    /\ rxOpen[r]
    /\ rxOpen' = [rxOpen EXCEPT ![r] = FALSE]
    /\ sink' = [sink EXCEPT ![r] = <<>>]
    /\ received' = [received EXCEPT ![r] = EmptyBag]
    /\ UNCHANGED <<numWorkers, fpc, submitted, jobs, djob, nextWorker, wq, wres>>
    /\ UNCHANGED <<poison, walive, dalive>>
    /\ UNCHANGED dispatched
    /\ UNCHANGED nonWorkerVars

WorkersNext ==
    \/ \E r \in Requests : FeedBlock(r)
    \/ \E r \in Requests : FeederEnd(r)
    \/ DispatchRecv
    \/ DispatchAccept
    \/ \E w \in WorkerIds : WorkerRecv(w)
    \/ \E w \in WorkerIds : WorkerSend(w)
    \/ \E r \in Requests : ConsumerRecv(r)
    \/ \E r \in Requests : DropReceiver(r)

--------------------------------------------------------------------------
(* Response cache: api/cache.rs, api/responses.rs *)

\* Duration::minutes(5) of ApiStatus::is_expired, in seconds.
FiveMinutes == 300
\* STATUS_CACHE: ttl Duration::new(5, 0)
StatusTTL == 5
\* LIGHTWATCHER_ROUTES_CACHE_TTL / LIGHTWATCHER_NEIGHBORS_CACHE_TTL default
DefaultTTL == 300

Keys == {"a", "b", "c"}
Payloads == {"A", "B"}
NoResponse == [absent |-> TRUE]

\* A response as a handler builds it (..Default::default()): not from cache,
\* stamps read from the clock at construction.
FreshResponse(payload, t) ==
    [payload |-> payload, result_from_cache |-> FALSE, date |-> t, cached_at |-> t]

\* mark_cached of StatusResponse / ProtocolsResponse / RoutesResponse:
\* api.mark_cached() sets the flag and api.cache_status (date = Utc::now()),
\* then cached_at = Utc::now(); t0 <= t1 are the two clock readings.
MarkCached(value, t0, t1) ==
    [value EXCEPT !.result_from_cache = TRUE, !.date = t0, !.cached_at = t1]

\* ApiStatus::is_expired: (Utc::now() - cached_at) > Duration::minutes(5)
IsExpired(value, t) == (t - value.date) > FiveMinutes

\* get_cached_at
GetCachedAt(value) == value.cached_at

Remove(resp, ks) == [k \in (DOMAIN resp) \ ks |-> resp[k]]

\* ResponseCache::evict_expired at clock reading t
EvictExpired(resp, t) == Remove(resp, {k \in DOMAIN resp : IsExpired(resp[k], t)})

\* ResponseCache::evict_oldest at clock reading t: remove_cached_at starts at
\* Utc::now() and only a strictly earlier cached_at replaces it; the map is
\* iterated in the hash map's order, so among entries with the same earliest
\* cached_at any one may be the key removed. With no entry earlier than t the
\* key removed is "", which no cache of the program holds. The set of
\* possible outcomes.
EvictOldest(resp, t) ==
    LET older == {k \in DOMAIN resp : GetCachedAt(resp[k]) < t}
        oldest == {k \in older :
                     \A j \in older : GetCachedAt(resp[k]) <= GetCachedAt(resp[j])}
    IN IF older = {} THEN {resp} ELSE {Remove(resp, {k}) : k \in oldest}

\* ResponseCache::get at clock reading t
GetResult(resp, key, t) ==
    IF key \in DOMAIN resp
       THEN IF IsExpired(resp[key], t) THEN NoResponse ELSE resp[key]
       ELSE NoResponse

\* The map after "self.responses.insert(key, value)"
Insert(resp, key, value) ==
    [k \in (DOMAIN resp) \cup {key} |-> IF k = key THEN value ELSE resp[k]]

CacheIdle ==
    /\ maxEntries = 1
    /\ ttl = DefaultTTL
    /\ now = 0
    /\ responses = <<>>
    /\ nputs = 0
    /\ lastPut = NoResponse

\* ResponseCache::new(config), for the configurations of the program's caches
CacheInit ==
    /\ maxEntries \in 1..MaxEntries
    /\ ttl \in {StatusTTL, DefaultTTL, LongTTL}
    /\ now = 0
    /\ responses = <<>>
    /\ nputs = 0
    /\ lastPut = NoResponse

\* The clock readings the model follows, in seconds: around the start and
\* around each of the three time-to-live values.
TimePoints ==
    {0, 1, 2, StatusTTL, StatusTTL + 1, FiveMinutes, FiveMinutes + 1, LongTTL,
     LongTTL + 1}

\* Time passes between two cache operations.
Tick ==
    /\ UNCHANGED nonCacheVars
    /\ \E t \in TimePoints :
          /\ t > now
          /\ now' = t
    /\ UNCHANGED <<maxEntries, ttl, responses, nputs, lastPut>>

\* ResponseCache::put(key, value). The clock is read by mark_cached (twice)
\* and by the evictions: t0 <= t1 <= t2, at most a second apart.
Put(key, payload) ==
    /\ UNCHANGED nonCacheVars
    /\ nputs < MaxPuts
    /\ \E t1, t2 \in TimePoints :
          LET t0 == now
              value == MarkCached(FreshResponse(payload, now), t0, t1)
              inserted == Insert(responses, key, value)
              expired == IF Cardinality(DOMAIN inserted) > maxEntries
                            THEN EvictExpired(inserted, t2) ELSE inserted
          IN /\ t0 <= t1 /\ t1 <= t2 /\ t2 - t0 <= 1
             /\ now' = t2
             /\ IF Cardinality(DOMAIN expired) > maxEntries
                   THEN responses' \in EvictOldest(expired, t2)
                   ELSE responses' = expired
             /\ lastPut' = [key |-> key, payload |-> payload, date |-> t0,
                            cached_at |-> t1]
    /\ nputs' = nputs + 1
    /\ UNCHANGED <<maxEntries, ttl>>

\* ResponseCache::get(&self, key) reads the map and the clock and changes
\* nothing; what it returns is GetResult(responses, key, now).
Get(key) ==
    /\ UNCHANGED nonCacheVars
    /\ GetResult(responses, key, now) \in
          {NoResponse} \cup {responses[k] : k \in DOMAIN responses}
    /\ UNCHANGED cacheVars

CacheNext ==
    \/ Tick
    \/ \E k \in Keys, p \in Payloads : Put(k, p)
    \/ \E k \in Keys : Get(k)

--------------------------------------------------------------------------
(* Rate limiter: api/rate_limit.rs *)

RateKeys == {"k", "j"}

NoCheck == [none |-> TRUE]

\* impl Default for RateLimitBucket
DefaultBucket(t) == [count |-> 0, window_start |-> t]

\* Mutant of Reset: the counter is cleared and the window keeps its start.
Reset_KeepsWindowStart(bucket, t) == [count |-> 0, window_start |-> bucket.window_start]

\* RateLimitBucket::reset
Reset(bucket, t) == [count |-> 0, window_start |-> t]

\* The comparison of check_rate_limit:
\* Utc::now().signed_duration_since(bucket.window_start) > self.config.window
WindowOver(bucket, t) == (t - bucket.window_start) > rlWindow

LimiterIdle ==
    /\ rlRequests = 1
    /\ rlWindow = 1
    /\ rlNow = 0
    /\ buckets = <<>>
    /\ allowed = <<>>
    /\ nchecks = 0
    /\ lastCheck = NoCheck

\* RateLimiter::new(config)
LimiterInit ==
    /\ rlRequests \in 0..MaxRate
    /\ rlWindow \in 1..MaxRateWindow
    /\ rlNow = 0
    /\ buckets = <<>>
    /\ allowed = <<>>
    /\ nchecks = 0
    /\ lastCheck = NoCheck

\* A second passes on the wall clock.
RateTick ==
    /\ UNCHANGED nonLimiterVars
    /\ rlNow < MaxClock
    /\ rlNow' = rlNow + 1
    /\ UNCHANGED <<rlRequests, rlWindow, buckets, allowed, nchecks, lastCheck>>

\* RateLimiter::check_rate_limit(key), under the buckets mutex. The clock is
\* read for a new bucket and for the comparison (t1) and again by reset (t2).
CheckRateLimit(key) ==
    /\ UNCHANGED nonLimiterVars
    /\ nchecks < MaxChecks
    /\ \E t2 \in rlNow..(rlNow + 1) :
         LET t1 == rlNow
             fresh == key \notin DOMAIN buckets
             bucket == IF fresh THEN DefaultBucket(t1) ELSE buckets[key]
             before == IF fresh THEN 0 ELSE allowed[key]
             over == WindowOver(bucket, t1)
             ok == over \/ bucket.count < rlRequests
             after == IF over THEN Reset(bucket, t2)
                      ELSE IF bucket.count < rlRequests
                              THEN [bucket EXCEPT !.count = @ + 1]
                              ELSE bucket
         IN /\ t2 <= MaxClock
            /\ (~over) => t2 = t1
            /\ rlNow' = t2
            /\ buckets' = [k \in DOMAIN buckets \cup {key} |->
                              IF k = key THEN after ELSE buckets[k]]
            /\ allowed' = [k \in DOMAIN buckets \cup {key} |->
                              IF k # key THEN allowed[k]
                              ELSE IF over THEN 1
                              ELSE IF ok THEN before + 1 ELSE before]
            /\ lastCheck' = [key |-> key, at |-> t1, over |-> over,
                             count |-> bucket.count, result |-> ok]
    /\ nchecks' = nchecks + 1
    /\ UNCHANGED <<rlRequests, rlWindow>>

LimiterNext ==
    \/ RateTick
    \/ \E key \in RateKeys : CheckRateLimit(key)

--------------------------------------------------------------------------
(* Query values and daemon commands: bird.rs *)

\* Characters of a path parameter: letters, a digit, the three punctuation
\* characters validate_string lets through, a quote, a space, a semicolon
\* and a character outside ASCII (two bytes in UTF-8).
Alphabet == {"a", "Z", "7", "_", ".", ":", "'", " ", ";", "e-acute"}

\* A string is its leading characters followed by `fill` letters "a".
FillLengths == {0, 1, 127, 128}

SeqsUpTo(n) == UNION {[1..k -> Alphabet] : k \in 0..n}

Strings == [head : SeqsUpTo(MaxHead), fill : FillLengths]

CharsOf(s) == {s.head[i] : i \in DOMAIN s.head} \cup (IF s.fill > 0 THEN {"a"} ELSE {})

\* char::len_utf8
LenUtf8(c) == IF c = "e-acute" THEN 2 ELSE 1

RECURSIVE HeadBytes(_)
HeadBytes(h) == IF h = <<>> THEN 0 ELSE LenUtf8(Head(h)) + HeadBytes(Tail(h))

\* str::len: the length in bytes
StrLen(s) == HeadBytes(s.head) + s.fill

\* str::is_empty
IsEmpty(s) == StrLen(s) = 0

\* char::is_ascii_alphanumeric
IsAsciiAlphanumeric(c) == c \in {"a", "Z", "7"}

\* The closure of validate_string: the characters let through.
ValidChar(c) == IsAsciiAlphanumeric(c) \/ c = "_" \/ c = "." \/ c = ":"

\* Mutant of validate_string: the length test is `>= 128`.
validate_string_RejectsAt128(s) ==
    IF IsEmpty(s) THEN "is empty"
    ELSE IF StrLen(s) >= 128 THEN "is too long"
    ELSE IF ~(\A c \in CharsOf(s) : ValidChar(c)) THEN "contains invalid characters"
    ELSE "ok"

\* validate_string: "ok" or the reason of the ValidationError
validate_string(s) ==
    IF IsEmpty(s) THEN "is empty"
    ELSE IF StrLen(s) > 128 THEN "is too long"
    ELSE IF ~(\A c \in CharsOf(s) : ValidChar(c)) THEN "contains invalid characters"
    ELSE "ok"

NotParsed == [none |-> TRUE]

\* QueryValue::parse: Ok(QueryValue(s.to_string())) or the validation error
QueryValueParse(s) ==
    LET table == s
        reason == validate_string(table)
    IN IF reason = "ok" THEN [input |-> s, ok |-> TRUE, value |-> table]
       ELSE [input |-> s, ok |-> FALSE, reason |-> reason]

\* impl Display for QueryValue: the wrapped string
Display(q) == q.value

NoCommand == <<>>

\* A command text is the sequence of the pieces of the format string,
\* split at the single quotes, and of the arguments put in for {}.
Lit(text) == [lit |-> text]
Arg(q) == [arg |-> Display(q)]

show_route_all_table(table) ==
    <<Lit("show route all table "), Lit("'"), Arg(table), Lit("'"), Lit("\n")>>

show_route_all_filtered_table(table) ==
    <<Lit("show route all filtered table "), Lit("'"), Arg(table), Lit("'"),
      Lit("\n")>>

show_route_all_protocol(protocol) ==
    <<Lit("show route all protocol "), Lit("'"), Arg(protocol), Lit("'"),
      Lit("\n")>>

show_route_all_filtered_protocol(protocol) ==
    <<Lit("show route all filtered protocol "), Lit("'"), Arg(protocol),
      Lit("'"), Lit("\n")>>

show_route_all_noexport_protocol(protocol) ==
    <<Lit("show route all noexport "), Lit("'"), Arg(protocol), Lit("'"),
      Lit("\n")>>

show_route_all_table_peer(table, peer) ==
    <<Lit("show route all table "), Lit("'"), Arg(table), Lit("'"),
      Lit(" where from="), Arg(peer), Lit("\n")>>

QueryIdle ==
    /\ qTable = NotParsed
    /\ qPeer = NotParsed
    /\ qCmd = NoCommand

QueryInit ==
    /\ qTable = NotParsed
    /\ qPeer = NotParsed
    /\ qCmd = NoCommand

\* A handler parses its table or protocol path parameter.
ParseTable(s) ==
    /\ qTable = NotParsed
    /\ qTable' = QueryValueParse(s)
    /\ UNCHANGED <<qPeer, qCmd>>
    /\ UNCHANGED nonQueryVars

\* list_routes_table_peer parses its peer path parameter, after the table
\* has parsed (TableID::parse(&table)? returns on an error).
ParsePeer(s) ==
    /\ qTable # NotParsed /\ qTable.ok
    /\ qPeer = NotParsed /\ qCmd = NoCommand
    /\ qPeer' = QueryValueParse(s)
    /\ UNCHANGED <<qTable, qCmd>>
    /\ UNCHANGED nonQueryVars

\* A show_route_all_* call with one parameter builds its command.
BuildCommand ==
    /\ qTable # NotParsed /\ qTable.ok
    /\ qPeer = NotParsed /\ qCmd = NoCommand
    /\ qCmd' \in {show_route_all_table(qTable),
                  show_route_all_filtered_table(qTable),
                  show_route_all_protocol(qTable),
                  show_route_all_filtered_protocol(qTable),
                  show_route_all_noexport_protocol(qTable)}
    /\ UNCHANGED <<qTable, qPeer>>
    /\ UNCHANGED nonQueryVars

\* show_route_all_table_peer builds its command.
BuildTablePeerCommand ==
    /\ qTable # NotParsed /\ qTable.ok
    /\ qPeer # NotParsed /\ qPeer.ok
    /\ qCmd = NoCommand
    /\ qCmd' = show_route_all_table_peer(qTable, qPeer)
    /\ UNCHANGED <<qTable, qPeer>>
    /\ UNCHANGED nonQueryVars

QueryNext ==
    \/ \E s \in Strings : ParseTable(s)
    \/ \E s \in Strings : ParsePeer(s)
    \/ BuildCommand
    \/ BuildTablePeerCommand

--------------------------------------------------------------------------
(* Block framers and the readers built on them: parsers/parser.rs *)

\* A line is known by what the framer asks of it: whether it begins with
\* 0000 or 9001, matches the start regex, matches the stop regex, or none.
LineKinds == {"start", "data", "stop", "0000", "9001"}

\* The inputs: line i of the input is [kind, at |-> i].
RECURSIVE Inputs(_)
Inputs(n) ==
    IF n = 0 THEN {<<>>}
    ELSE LET shorter == Inputs(n - 1)
         IN shorter \cup {Append(h, [kind |-> k, at |-> n]) :
                             h \in {x \in shorter : Len(x) = n - 1}, k \in LineKinds}

\* line.starts_with(prefix), for the prefixes "0000" and "9001"
StartsWith(line, prefix) == line.kind = prefix

\* self.start.is_match(line)
StartIsMatch(line) == line.kind = "start"

\* re.is_match(&line) for the stop regex
StopIsMatch(line) == line.kind = "stop"

\* Option<Block>
None == [some |-> FALSE, block |-> <<>>]
Some(block) == [some |-> TRUE, block |-> block]

\* if block.is_empty() { None } else { Some(block) }
SomeUnlessEmpty(block, pos) ==
    IF block = <<>> THEN [item |-> None, pos |-> pos]
    ELSE [item |-> Some(block), pos |-> pos]

\* Mutant of PeekBreaks: the framer does not look at the start regex.
PeekBreaks_IgnoresStart(next) == StartsWith(next, "0000")

\* The test BlockIterator::next makes on the peeked line.
PeekBreaks(next) == StartIsMatch(next) \/ StartsWith(next, "0000")

\* The loop of BlockIterator::next, from `pos` lines handed out and with
\* `block` collected: the item returned and the lines handed out after it.
RECURSIVE BlockIteratorLoop(_, _, _, _)
BlockIteratorLoop(lines, stop, pos, block) ==
    IF pos >= Len(lines) THEN [item |-> None, pos |-> pos]
    ELSE LET line == lines[pos + 1]
             pushed == Append(block, line)
         IN IF StartsWith(line, "0000") THEN [item |-> None, pos |-> pos + 1]
            ELSE IF StartsWith(line, "9001") THEN [item |-> None, pos |-> pos + 1]
            ELSE IF stop /\ StopIsMatch(line) THEN SomeUnlessEmpty(pushed, pos + 1)
            ELSE IF pos + 1 < Len(lines)
                    THEN IF PeekBreaks(lines[pos + 2])
                            THEN SomeUnlessEmpty(pushed, pos + 1)
                            ELSE BlockIteratorLoop(lines, stop, pos + 1, pushed)
            ELSE SomeUnlessEmpty(pushed, pos + 1)

\* BlockIterator::next
BlockIteratorNext(lines, stop, pos) == BlockIteratorLoop(lines, stop, pos, <<>>)

\* The loop of BlockGroup::next
RECURSIVE BlockGroupLoop(_, _, _)
BlockGroupLoop(lines, pos, block) ==
    IF pos >= Len(lines) THEN [item |-> None, pos |-> pos]
    ELSE LET line == lines[pos + 1]
             pushed == Append(block, line)
         IN IF pos + 1 < Len(lines)
               THEN IF StartIsMatch(lines[pos + 2])
                       THEN SomeUnlessEmpty(pushed, pos + 1)
                       ELSE BlockGroupLoop(lines, pos + 1, pushed)
               ELSE SomeUnlessEmpty(pushed, pos + 1)

\* BlockGroup::next
BlockGroupNext(lines, pos) == BlockGroupLoop(lines, pos, <<>>)

FramerIdle ==
    /\ finput = <<>>
    /\ fstop = FALSE
    /\ fuser = "blocks"
    /\ fpos = 0
    /\ yielded = <<>>
    /\ records = <<>>
    /\ fended = TRUE

\* BlockIterator::new(reader, start), with_stop(stop), BlockGroup::new(block,
\* start), ProtocolReader::new(reader), NeighborReader::new(reader)
FramerInit ==
    /\ finput \in Inputs(MaxLines)
    /\ fuser \in {"blocks", "protocols", "neighbors", "group"}
    /\ fstop \in BOOLEAN
    /\ fstop => fuser = "blocks"
    /\ fpos = 0
    /\ yielded = <<>>
    /\ records = <<>>
    /\ fended = FALSE

\* A call of BlockIterator::next by the owner of the iterator.
FramerNext ==
    /\ fuser = "blocks"
    /\ LET r == BlockIteratorNext(finput, fstop, fpos)
       IN /\ fpos' = r.pos
          /\ yielded' = IF r.item.some THEN Append(yielded, r.item.block) ELSE yielded
          /\ fended' = (fended \/ ~r.item.some)
    /\ UNCHANGED <<finput, fstop, fuser, records>>
    /\ UNCHANGED nonFramerVars

\* A call of BlockGroup::next (PrefixGroup::parse over a buffered block).
GroupNext ==
    /\ fuser = "group"
    /\ LET r == BlockGroupNext(finput, fpos)
       IN /\ fpos' = r.pos
          /\ yielded' = IF r.item.some THEN Append(yielded, r.item.block) ELSE yielded
          /\ fended' = (fended \/ ~r.item.some)
    /\ UNCHANGED <<finput, fstop, fuser, records>>
    /\ UNCHANGED nonFramerVars

\* ProtocolReader::next, one round: self.iter.next()?, Protocol::parse; a
\* block that does not parse is logged and the round repeats (self.next()).
ProtocolReaderNext ==
    /\ fuser = "protocols"
    /\ LET r == BlockIteratorNext(finput, fstop, fpos)
       IN /\ fpos' = r.pos
          /\ yielded' = IF r.item.some THEN Append(yielded, r.item.block) ELSE yielded
          /\ fended' = (fended \/ ~r.item.some)
          /\ IF ~r.item.some THEN records' = records
             ELSE \E parsed \in BOOLEAN :
                    records' = IF parsed THEN Append(records, [from |-> r.item.block])
                               ELSE records
    /\ UNCHANGED <<finput, fstop, fuser>>
    /\ UNCHANGED nonFramerVars

\* NeighborReader::next: a block that does not parse gives Neighbor::default().
NeighborReaderNext ==
    /\ fuser = "neighbors"
    /\ LET r == BlockIteratorNext(finput, fstop, fpos)
       IN /\ fpos' = r.pos
          /\ yielded' = IF r.item.some THEN Append(yielded, r.item.block) ELSE yielded
          /\ fended' = (fended \/ ~r.item.some)
          /\ IF ~r.item.some THEN records' = records
             ELSE \E parsed \in BOOLEAN :
                    records' = Append(records, [from |-> IF parsed THEN r.item.block
                                                         ELSE <<>>])
    /\ UNCHANGED <<finput, fstop, fuser>>
    /\ UNCHANGED nonFramerVars

FramerSteps ==
    \/ FramerNext
    \/ GroupNext
    \/ ProtocolReaderNext
    \/ NeighborReaderNext

--------------------------------------------------------------------------
(* Endpoint handlers: api/routes.rs, api/status.rs, api/error.rs *)

ProtocolEndpoints == {"received", "filtered", "noexport"}
TableEndpoints == {"table", "table_filtered", "table_peer"}
Endpoints == ProtocolEndpoints \cup TableEndpoints \cup {"status"}

\* Path parameters: a valid one, one with a quote, an empty one, one too long.
PathSamples ==
    {[head |-> <<"a">>, fill |-> 0], [head |-> <<"'">>, fill |-> 0],
     [head |-> <<>>, fill |-> 0], [head |-> <<"a">>, fill |-> 128]}

\* Option<usize>
NoCutoff == [some |-> FALSE, value |-> 0]
SomeCutoff(n) == [some |-> TRUE, value |-> n]

\* config::get_routes_protocol_cutoff(): unset, or the configured number
get_routes_protocol_cutoff == {NoCutoff} \cup {SomeCutoff(n) : n \in 1..MaxCutoff}

\* Lines of a reply to a show route command: the first line of a prefix
\* group (1007-prefix), a further route of the group (1007- ), a line no
\* route parses from, and the sentinels. Lines of a reply to show status:
\* a status line, the closing 0013 line, and the sentinels.
RouteLineKinds == {"start", "route", "junk", "9001", "0000"}
StatusLineKinds == {"data", "stop", "9001", "0000"}

RECURSIVE Replies(_, _)
Replies(kinds, n) ==
    IF n = 0 THEN {<<>>}
    ELSE LET shorter == Replies(kinds, n - 1)
         IN shorter \cup {Append(h, [kind |-> k, at |-> n]) :
                             h \in {x \in shorter : Len(x) = n - 1}, k \in kinds}

\* The blocks `for block in blocks` takes from the framer: up to the first None.
RECURSIVE BlocksOf(_, _)
BlocksOf(lines, pos) ==
    LET r == BlockIteratorNext(lines, FALSE, pos)
    IN IF r.item.some THEN <<r.item.block>> \o BlocksOf(lines, r.pos) ELSE <<>>

\* PrefixGroup::parse(block): Ok with one route per route block, or Err when
\* a route block does not parse.
ParseRoutes(block) ==
    IF \E i \in DOMAIN block : block[i].kind = "junk"
       THEN [ok |-> FALSE, routes |-> 0]
       ELSE [ok |-> TRUE,
             routes |-> Cardinality({i \in DOMAIN block :
                                       block[i].kind \in {"start", "route"}})]

\* The results the worker pool sends for a reply.
ResultsOf(lines) ==
    LET blocks == BlocksOf(lines, 0)
    IN [i \in DOMAIN blocks |-> ParseRoutes(blocks[i])]

\* The command a routes endpoint has Birdc write.
CommandOf(endpoint, table, peer) ==
    CASE endpoint = "received" -> show_route_all_protocol(table)
      [] endpoint = "filtered" -> show_route_all_filtered_protocol(table)
      [] endpoint = "noexport" -> show_route_all_noexport_protocol(table)
      [] endpoint = "table" -> show_route_all_table(table)
      [] endpoint = "table_filtered" -> show_route_all_filtered_table(table)
      [] endpoint = "table_peer" -> show_route_all_table_peer(table, peer)
      [] OTHER -> <<Lit("show status\n")>>

NoEffects == [cacheReads |-> 0, cachePuts |-> 0, acquires |-> 0, commands |-> <<>>]

NotAnswered == [kind |-> "none", code |-> 0, routes |-> 0, reason |-> ""]

\* impl IntoResponse for Error: always 500, the error text in the body
ErrorResponse(reason) == [kind |-> "error", code |-> 500, routes |-> 0, reason |-> reason]

\* Ok(response): the JSON body with status 200
OkResponse(n) == [kind |-> "ok", code |-> 200, routes |-> n, reason |-> ""]

\* Ok(res) for a cache hit
CachedResponse == [kind |-> "cached", code |-> 200, routes |-> 0, reason |-> ""]

\* A panic in the handler's task: the connection is dropped without a response.
Panicked == [kind |-> "panic", code |-> 0, routes |-> 0, reason |-> ""]

HandlerIdle ==
    /\ hpc = "idle"
    /\ hEndpoint = "status"
    /\ hTable = [head |-> <<>>, fill |-> 0]
    /\ hPeer = [head |-> <<>>, fill |-> 0]
    /\ hCutoff = NoCutoff
    /\ hReply = <<>>
    /\ hPending = <<>>
    /\ hRoutes = 0
    /\ hEffects = NoEffects
    /\ hResponse = NotAnswered

\* The router calls a handler with the path parameters of the request.
Request(endpoint, table, peer) ==
    /\ hpc = "idle"
    /\ endpoint = "status" => table = [head |-> <<>>, fill |-> 0]
    /\ endpoint # "table_peer" => peer = [head |-> <<>>, fill |-> 0]
    /\ hpc' = "validate"
    /\ hEndpoint' = endpoint
    /\ hTable' = table
    /\ hPeer' = peer
    /\ UNCHANGED <<hCutoff, hReply, hPending, hRoutes, hEffects, hResponse>>
    /\ UNCHANGED nonHandlerVars

\* Mutant of Validate: the peer is not parsed before the cache is read.
Validate_SkipsPeer ==
    /\ hpc = "validate"
    /\ LET table == QueryValueParse(hTable)
       IN IF hEndpoint # "status" /\ ~table.ok
             THEN /\ hResponse' = ErrorResponse(table.reason)
                  /\ hpc' = "done"
             ELSE /\ hpc' = "lookup"
                  /\ UNCHANGED hResponse
    /\ UNCHANGED <<hEndpoint, hTable, hPeer, hCutoff, hReply, hPending, hRoutes, hEffects>>
    /\ UNCHANGED nonHandlerVars

\* ProtocolID::parse(&id)? / TableID::parse(&table)? / PeerID::parse(&peer)?
Validate ==
    /\ hpc = "validate"
    /\ LET table == QueryValueParse(hTable)
           peer == QueryValueParse(hPeer)
       IN IF hEndpoint # "status" /\ ~table.ok
             THEN /\ hResponse' = ErrorResponse(table.reason)
                  /\ hpc' = "done"
             ELSE IF hEndpoint = "table_peer" /\ ~peer.ok
             THEN /\ hResponse' = ErrorResponse(peer.reason)
                  /\ hpc' = "done"
             ELSE /\ hpc' = "lookup"
                  /\ UNCHANGED hResponse
    /\ UNCHANGED <<hEndpoint, hTable, hPeer, hCutoff, hReply, hPending, hRoutes, hEffects>>
    /\ UNCHANGED nonHandlerVars

\* cache.get(&key).cloned() under the cache mutex: a hit is returned, on a
\* miss the protocol endpoints read the cutoff.
Lookup ==
    /\ hpc = "lookup"
    /\ hEffects' = [hEffects EXCEPT !.cacheReads = @ + 1]
    /\ \E hit \in BOOLEAN :
         IF hit THEN /\ hResponse' = CachedResponse
                     /\ hpc' = "done"
                     /\ UNCHANGED hCutoff
         ELSE /\ hpc' = "fetch"
              /\ UNCHANGED hResponse
              /\ IF hEndpoint \in ProtocolEndpoints
                    THEN hCutoff' \in get_routes_protocol_cutoff
                    ELSE UNCHANGED hCutoff
    /\ UNCHANGED <<hEndpoint, hTable, hPeer, hReply, hPending, hRoutes>>
    /\ UNCHANGED nonHandlerVars

\* Mutant of Fetch: a failed connect is tried again on a second pooled
\* connection before the error is returned.
Fetch_Retries ==
    /\ hpc = "fetch"
    /\ \E opened, written \in BOOLEAN :
         IF ~opened
            THEN /\ hEffects' = [hEffects EXCEPT !.acquires = @ + 2]
                 /\ hResponse' = ErrorResponse("daemon unreachable")
                 /\ hpc' = "done"
                 /\ UNCHANGED <<hReply, hPending>>
         ELSE IF ~written
            THEN /\ hEffects' = [hEffects EXCEPT
                        !.acquires = @ + 1,
                        !.commands = Append(@, CommandOf(hEndpoint,
                                                         QueryValueParse(hTable),
                                                         QueryValueParse(hPeer)))]
                 /\ hResponse' = ErrorResponse("write failed")
                 /\ hpc' = "done"
                 /\ UNCHANGED <<hReply, hPending>>
            ELSE /\ hEffects' = [hEffects EXCEPT
                        !.acquires = @ + 1,
                        !.commands = Append(@, CommandOf(hEndpoint,
                                                         QueryValueParse(hTable),
                                                         QueryValueParse(hPeer)))]
                 /\ IF hEndpoint = "status"
                       THEN \E reply \in Replies(StatusLineKinds, MaxLines) :
                              /\ hReply' = reply
                              /\ hPending' = <<>>
                              /\ IF BlockIteratorNext(reply, TRUE, 0).item.some
                                    THEN hpc' = "put" /\ UNCHANGED hResponse
                                    ELSE hpc' = "done" /\ hResponse' = Panicked
                       ELSE \E reply \in Replies(RouteLineKinds, MaxLines) :
                              /\ hReply' = reply
                              /\ hPending' = ResultsOf(reply)
                              /\ hpc' = "recv"
                              /\ UNCHANGED hResponse
    /\ UNCHANGED <<hEndpoint, hTable, hPeer, hCutoff, hRoutes>>
    /\ UNCHANGED nonHandlerVars

\* Mutant of Fetch: a fetch that fails is entered into the cache.
Fetch_CachesFailure ==
    /\ hpc = "fetch"
    /\ \E opened, written \in BOOLEAN :
         IF ~opened
            THEN /\ hEffects' = [hEffects EXCEPT !.acquires = @ + 1, !.cachePuts = @ + 1]
                 /\ hResponse' = ErrorResponse("daemon unreachable")
                 /\ hpc' = "done"
                 /\ UNCHANGED <<hReply, hPending>>
         ELSE IF ~written
            THEN /\ hEffects' = [hEffects EXCEPT
                        !.acquires = @ + 1,
                        !.cachePuts = @ + 1,
                        !.commands = Append(@, CommandOf(hEndpoint,
                                                         QueryValueParse(hTable),
                                                         QueryValueParse(hPeer)))]
                 /\ hResponse' = ErrorResponse("write failed")
                 /\ hpc' = "done"
                 /\ UNCHANGED <<hReply, hPending>>
            ELSE /\ hEffects' = [hEffects EXCEPT
                        !.acquires = @ + 1,
                        !.commands = Append(@, CommandOf(hEndpoint,
                                                         QueryValueParse(hTable),
                                                         QueryValueParse(hPeer)))]
                 /\ IF hEndpoint = "status"
                       THEN \E reply \in Replies(StatusLineKinds, MaxLines) :
                              /\ hReply' = reply
                              /\ hPending' = <<>>
                              /\ IF BlockIteratorNext(reply, TRUE, 0).item.some
                                    THEN hpc' = "put" /\ UNCHANGED hResponse
                                    ELSE hpc' = "done" /\ hResponse' = Panicked
                       ELSE \E reply \in Replies(RouteLineKinds, MaxLines) :
                              /\ hReply' = reply
                              /\ hPending' = ResultsOf(reply)
                              /\ hpc' = "recv"
                              /\ UNCHANGED hResponse
    /\ UNCHANGED <<hEndpoint, hTable, hPeer, hCutoff, hRoutes>>
    /\ UNCHANGED nonHandlerVars

\* birdc.show_route_all_*(..).await? : acquire, open, write the command,
\* start the feeder over the reply. birdc.show_status().await? : acquire,
\* open, write, iter.next().unwrap(), BirdStatus::parse. The connect and
\* the write_all may each fail: the `?` returns the error.
Fetch ==
    /\ hpc = "fetch"
    /\ \E opened, written \in BOOLEAN :
         IF ~opened
            THEN /\ hEffects' = [hEffects EXCEPT !.acquires = @ + 1]
                 /\ hResponse' = ErrorResponse("daemon unreachable")
                 /\ hpc' = "done"
                 /\ UNCHANGED <<hReply, hPending>>
         ELSE IF ~written
            THEN /\ hEffects' = [hEffects EXCEPT
                        !.acquires = @ + 1,
                        !.commands = Append(@, CommandOf(hEndpoint,
                                                         QueryValueParse(hTable),
                                                         QueryValueParse(hPeer)))]
                 /\ hResponse' = ErrorResponse("write failed")
                 /\ hpc' = "done"
                 /\ UNCHANGED <<hReply, hPending>>
            ELSE /\ hEffects' = [hEffects EXCEPT
                        !.acquires = @ + 1,
                        !.commands = Append(@, CommandOf(hEndpoint,
                                                         QueryValueParse(hTable),
                                                         QueryValueParse(hPeer)))]
                 /\ IF hEndpoint = "status"
                       THEN \E reply \in Replies(StatusLineKinds, MaxLines) :
                              /\ hReply' = reply
                              /\ hPending' = <<>>
                              /\ IF BlockIteratorNext(reply, TRUE, 0).item.some
                                    THEN hpc' = "put" /\ UNCHANGED hResponse
                                    ELSE hpc' = "done" /\ hResponse' = Panicked
                       ELSE \E reply \in Replies(RouteLineKinds, MaxLines) :
                              /\ hReply' = reply
                              /\ hPending' = ResultsOf(reply)
                              /\ hpc' = "recv"
                              /\ UNCHANGED hResponse
    /\ UNCHANGED <<hEndpoint, hTable, hPeer, hCutoff, hRoutes>>
    /\ UNCHANGED nonHandlerVars

\* One round of `while let Some(result) = results.recv().await`: the routes
\* of an Ok result are added, an Err is logged, then the cutoff is tested;
\* the loop ends when the channel is closed and empty.
Recv ==
    /\ hpc = "recv"
    /\ IF hPending = <<>>
          THEN /\ hpc' = "put"
               /\ UNCHANGED <<hPending, hRoutes>>
          ELSE \E i \in DOMAIN hPending :
                 LET result == hPending[i]
                     len == IF result.ok THEN hRoutes + result.routes ELSE hRoutes
                 IN /\ hRoutes' = len
                    /\ hPending' = [j \in 1..(Len(hPending) - 1) |->
                                       IF j < i THEN hPending[j] ELSE hPending[j + 1]]
                    /\ hpc' = IF hCutoff.some /\ len >= hCutoff.value
                                 THEN "put" ELSE "recv"
    /\ UNCHANGED <<hEndpoint, hTable, hPeer, hCutoff, hReply, hEffects, hResponse>>
    /\ UNCHANGED nonHandlerVars

\* cache.put(&key, response.clone()); Ok(response)
Respond ==
    /\ hpc = "put"
    /\ hEffects' = [hEffects EXCEPT !.cachePuts = @ + 1]
    /\ hResponse' = OkResponse(hRoutes)
    /\ hpc' = "done"
    /\ UNCHANGED <<hEndpoint, hTable, hPeer, hCutoff, hReply, hPending, hRoutes>>
    /\ UNCHANGED nonHandlerVars

HandlerNext ==
    \/ \E endpoint \in Endpoints : \E table, peer \in PathSamples \cup {[head |-> <<>>, fill |-> 0]} :
          Request(endpoint, table, peer)
    \/ Validate
    \/ Lookup
    \/ Fetch
    \/ Recv
    \/ Respond

--------------------------------------------------------------------------
(* Protocol parser and reader: parsers/protocols.rs *)

\* A u32 is kept as two 16 bit halves: the number hi * Half + lo.
U32(hi, lo) == [hi |-> hi, lo |-> lo]
U32Zero == U32(0, 0)
U32Max == U32(Half - 1, Half - 1)

\* The sum of two numbers, exact: hi is not reduced.
Plus(a, b) ==
    [hi |-> a.hi + b.hi + ((a.lo + b.lo) \div Half), lo |-> (a.lo + b.lo) % Half]

\* The number is below 2^32.
FitsU32(x) == x.hi < Half

\* The number modulo 2^32.
WrapU32(x) == [hi |-> x.hi % Half, lo |-> x.lo]

\* A token of a line: its text, whether it is all digits, and then its number.
Token(text, digits, value) == [text |-> text, digits |-> digits, value |-> value]
Word(text) == Token(text, FALSE, U32Zero)
Number(text, value) == Token(text, TRUE, value)

\* A string is known by its comma separated segments, each the sequence of
\* its whitespace separated tokens. "" and " " have one segment, without token.
NoString == << <<>> >>
Str(text) == << <<Word(text)>> >>

\* s.parse::<u32>() of one token
ParseU32(token) ==
    IF token.digits /\ FitsU32(token.value)
       THEN [ok |-> TRUE, value |-> token.value]
       ELSE [ok |-> FALSE, value |-> U32Zero]

\* val.parse::<u32>() of a whole value
ParseU32Str(s) ==
    IF Len(s) = 1 /\ Len(s[1]) = 1 THEN ParseU32(s[1][1])
    ELSE [ok |-> FALSE, value |-> U32Zero]

\* HashMap<String, u32>
EmptyCount == [k \in {} |-> U32Zero]
CountInsert(count, key, value) ==
    [k \in (DOMAIN count) \cup {key} |-> IF k = key THEN value ELSE count[k]]

\* The map RoutesCount::parse collects from segment i on. s[0] and s[1] index
\* the token vector of the segment: with fewer than two tokens the index is
\* out of bounds and the call panics.
RECURSIVE RoutesCountCollect(_, _, _)
RoutesCountCollect(row, i, count) ==
    IF i > Len(row) THEN [panic |-> FALSE, count |-> count]
    ELSE LET s == row[i]
         IN IF Len(s) < 2 THEN [panic |-> TRUE, count |-> count]
            ELSE LET val == ParseU32(s[1])
                 IN RoutesCountCollect(row, i + 1,
                        CountInsert(count, s[2].text,
                                    IF val.ok THEN val.value ELSE U32Zero))

\* RoutesCount::parse(row)
RoutesCountParse(row) == RoutesCountCollect(row, 1, EmptyCount)

\* Channel::default(), Protocol::default()
DefaultChannel ==
    [table |-> NoString, peer_table |-> NoString, preference |-> U32Zero,
     routes_count |-> EmptyCount]

EmptyChannels == [c \in {} |-> DefaultChannel]

DefaultProtocol ==
    [id |-> "", bird_protocol |-> NoString, asn |-> U32Zero, description |-> NoString,
     routes |-> EmptyCount, channels |-> EmptyChannels,
     table |-> NoString, peer_table |-> NoString]

\* enum State, with ChannelSection
State_Start == [name |-> "Start", channel |-> "", section |-> ""]
State_Meta == [name |-> "Meta", channel |-> "", section |-> ""]
State_BgpState == [name |-> "BgpState", channel |-> "", section |-> ""]
State_Channel(ch, sec) == [name |-> "Channel", channel |-> ch, section |-> sec]

\* Lines of a reply to "show protocols all", by what the regexes find in them:
\* a 1002- line the header regex matches (id, type), a 1002- line it does not
\* match, a channel header, a "key: value" line, a line with none of these.
HeaderLine(id, type) == [kind |-> "start", what |-> "header", key |-> id, value |-> Str(type)]
BrokenHeaderLine == [kind |-> "start", what |-> "plain", key |-> "", value |-> NoString]
ChannelLine(name) == [kind |-> "data", what |-> "channel", key |-> name, value |-> NoString]
KeyValue(key, value) == [kind |-> "data", what |-> "kv", key |-> key, value |-> value]
PlainLine == [kind |-> "data", what |-> "plain", key |-> "", value |-> NoString]

\* line.contains("BGP")
ContainsBGP(line) ==
    \/ line.what = "header" /\ line.value = Str("BGP")
    \/ line.what = "kv" /\ line.key = "bgp state"

\* Result<State> of a line parser, with the protocol as the line left it
LineOk(protocol, state) == [tag |-> "Ok", protocol |-> protocol, state |-> state]
LineErr(protocol, state) == [tag |-> "Err", protocol |-> protocol, state |-> state]
LinePanic(protocol, state) == [tag |-> "Panic", protocol |-> protocol, state |-> state]

\* parse_protocol_header
parse_protocol_header(protocol, line, filter_bgp) ==
    IF filter_bgp /\ ~ContainsBGP(line) THEN LineOk(protocol, State_Start)
    ELSE IF line.what = "header"
            THEN LineOk([protocol EXCEPT !.id = line.key, !.bird_protocol = line.value],
                        State_Meta)
            ELSE LineOk(protocol, State_Start)

\* parse_channel_header(l).is_some()
parse_channel_header(line) == line.what = "channel"

\* parse_protocol_meta
parse_protocol_meta(protocol, line) ==
    IF parse_channel_header(line) THEN LineOk(protocol, State_Channel(line.key, "Meta"))
    ELSE IF line.what = "kv" /\ line.key = "description"
            THEN LineOk([protocol EXCEPT !.description = line.value], State_BgpState)
            ELSE LineOk(protocol, State_BgpState)

\* parse_bgp_state
parse_bgp_state(protocol, line) ==
    IF parse_channel_header(line) THEN LineOk(protocol, State_Channel(line.key, "Meta"))
    ELSE IF line.what = "kv" /\ line.key = "neighbor as"
            THEN LET asn == ParseU32Str(line.value)
                 IN IF asn.ok THEN LineOk([protocol EXCEPT !.asn = asn.value], State_BgpState)
                    ELSE LineErr(protocol, State_BgpState)
            ELSE LineOk(protocol, State_BgpState)

\* protocol.channels.entry(channel).or_insert(Channel::default())
WithChannel(protocol, channel) ==
    IF channel \in DOMAIN protocol.channels THEN protocol
    ELSE [protocol EXCEPT !.channels =
            [c \in (DOMAIN protocol.channels) \cup {channel} |->
                IF c = channel THEN DefaultChannel ELSE protocol.channels[c]]]

\* parse_channel_meta
parse_channel_meta(protocol, channel, line) ==
    LET p == WithChannel(protocol, channel)
        stay == State_Channel(channel, "Meta")
    IN IF line.what # "kv" THEN LineOk(p, stay)
       ELSE IF line.key = "table"
               THEN LineOk([p EXCEPT !.channels[channel].table = line.value], stay)
       ELSE IF line.key = "peer table"
               THEN LineOk([p EXCEPT !.channels[channel].peer_table = line.value], stay)
       ELSE IF line.key = "preference"
               THEN LET pref == ParseU32Str(line.value)
                    IN IF pref.ok
                          THEN LineOk([p EXCEPT !.channels[channel].preference = pref.value],
                                      stay)
                          ELSE LineErr(p, stay)
       ELSE IF line.key = "routes"
               THEN LET count == RoutesCountParse(line.value)
                    IN IF count.panic THEN LinePanic(p, stay)
                       ELSE LineOk([p EXCEPT !.channels[channel].routes_count = count.count],
                                   stay)
       ELSE IF line.key = "route change stats"
               THEN LineOk(p, State_Channel(channel, "RouteChangeStats"))
       ELSE LineOk(p, stay)

\* parse_channel_route_change_stats
parse_channel_route_change_stats(protocol, channel, line) ==
    LET p == WithChannel(protocol, channel)
    IN IF line.what = "kv" THEN LineOk(p, State_Channel(channel, "RouteChangeStats"))
       ELSE LineOk(p, State_Meta)

\* parse_channel
parse_channel(protocol, channel, section, line) ==
    IF parse_channel_header(line) THEN LineOk(protocol, State_Channel(line.key, "Meta"))
    ELSE IF section = "Meta" THEN parse_channel_meta(protocol, channel, line)
    ELSE parse_channel_route_change_stats(protocol, channel, line)

\* parse_line
parse_line(protocol, state, line, filter_bgp) ==
    CASE state.name = "Start" -> parse_protocol_header(protocol, line, filter_bgp)
      [] state.name = "Meta" -> parse_protocol_meta(protocol, line)
      [] state.name = "BgpState" -> parse_bgp_state(protocol, line)
      [] OTHER -> parse_channel(protocol, state.channel, state.section, line)

\* The element of a set of one element: {F(r) : r \in {e}} is F of the value
\* of e, with e evaluated once.
Only(S) == CHOOSE x \in S : TRUE

\* "for line in block.iter()" of Protocol::parse, from line i on
RECURSIVE ParseLines(_, _, _, _, _)
ParseLines(block, i, protocol, state, filter_bgp) ==
    IF i > Len(block) THEN LineOk(protocol, state)
    ELSE Only({ IF r.tag = "Ok"
                   THEN ParseLines(block, i + 1, r.protocol, r.state, filter_bgp)
                   ELSE r
                : r \in {parse_line(protocol, state, block[i], filter_bgp)} })

\* The labels of the channels' routes_count maps.
Labels(channels) == UNION {DOMAIN channels[c].routes_count : c \in DOMAIN channels}

\* The sum of label k over the channels cs, exact.
RECURSIVE SumOverChannels(_, _, _)
SumOverChannels(channels, cs, k) ==
    IF cs = {} THEN U32Zero
    ELSE LET c == CHOOSE x \in cs : TRUE
             rest == SumOverChannels(channels, cs \ {c}, k)
         IN IF k \in DOMAIN channels[c].routes_count
               THEN Plus(channels[c].routes_count[k], rest)
               ELSE rest

\* The exact sum of label k over all channels.
ChannelSum(channels, k) == SumOverChannels(channels, DOMAIN channels, k)

\* finalize_counters: "*c += count" on u32 panics in a build with overflow
\* checks and wraps in one without. The totals, and whether the call panics.
finalize_counters(protocol, overflow_checks) ==
    LET ks == Labels(protocol.channels)
        overflows == \E k \in ks : ~FitsU32(ChannelSum(protocol.channels, k))
    IN [panic |-> overflows /\ overflow_checks,
        protocol |-> [protocol EXCEPT !.routes =
                        [k \in ks |-> WrapU32(ChannelSum(protocol.channels, k))]]]

\* The channel the hash map iterates first, when it iterates in `order`.
RECURSIVE FirstIn(_, _, _)
FirstIn(order, i, present) ==
    IF order[i] \in present THEN order[i] ELSE FirstIn(order, i + 1, present)

\* finalize_attributes: table and peer_table of the first channel of
\* protocol.channels.iter(). A HashMap iterates in the order of its hasher,
\* seeded at random for each map.
finalize_attributes(protocol, order) ==
    IF DOMAIN protocol.channels = {} THEN protocol
    ELSE LET first == FirstIn(order, 1, DOMAIN protocol.channels)
         IN [protocol EXCEPT !.table = protocol.channels[first].table,
                             !.peer_table = protocol.channels[first].peer_table]

\* Result<Protocol>, or the panic of the call
ProtocolOk(protocol) == [tag |-> "Ok", protocol |-> protocol, cause |-> ""]
ProtocolErr == [tag |-> "Err", protocol |-> DefaultProtocol, cause |-> "parse"]
ProtocolPanic(cause) == [tag |-> "Panic", protocol |-> DefaultProtocol, cause |-> cause]

\* Protocol::parse(block, filter_bgp)
ProtocolParse(block, filter_bgp, overflow_checks, order) ==
    Only({ IF r.tag = "Err" THEN ProtocolErr
           ELSE IF r.tag = "Panic" THEN ProtocolPanic("RoutesCount::parse")
           ELSE Only({ IF counted.panic THEN ProtocolPanic("finalize_counters")
                       ELSE ProtocolOk(finalize_attributes(counted.protocol, order))
                       : counted \in {finalize_counters(r.protocol, overflow_checks)} })
           : r \in {ParseLines(block, 1, DefaultProtocol, State_Start, filter_bgp)} })

\* The rounds of ProtocolReader::next from `pos` on: self.iter.next()?, then
\* Protocol::parse; on Err the error is logged and next calls itself. `log`
\* collects the blocks parsed in the call with their results.
RECURSIVE ProtocolReaderLoop(_, _, _, _, _, _)
ProtocolReaderLoop(lines, pos, filter_bgp, overflow_checks, order, log) ==
    Only({ IF ~b.item.some THEN [tag |-> "None", pos |-> b.pos, log |-> log]
           ELSE Only({ LET logged == Append(log, [block |-> b.item.block, result |-> r])
                       IN IF r.tag = "Ok"
                             THEN [tag |-> "Some", pos |-> b.pos, log |-> logged]
                          ELSE IF r.tag = "Panic"
                             THEN [tag |-> "Panic", pos |-> b.pos, log |-> logged]
                          ELSE ProtocolReaderLoop(lines, b.pos, filter_bgp,
                                                  overflow_checks, order, logged)
                       : r \in {ProtocolParse(b.item.block, filter_bgp,
                                              overflow_checks, order)} })
           : b \in {BlockIteratorNext(lines, FALSE, pos)} })

\* The values of "Routes:" lines: "2 imported, 1 filtered", "1 imported",
\* "4294967295 imported", "abc imported", "4294967296 imported",
\* "1 imported extra", "1", "" (or blanks), "1 imported,".
Rows ==
    { << <<Number("2", U32(0, 2)), Word("imported")>>,
         <<Number("1", U32(0, 1)), Word("filtered")>> >>,
      << <<Number("1", U32(0, 1)), Word("imported")>> >>,
      << <<Number("4294967295", U32Max), Word("imported")>> >>,
      << <<Word("abc"), Word("imported")>> >>,
      << <<Number("4294967296", U32(Half, 0)), Word("imported")>> >>,
      << <<Number("1", U32(0, 1)), Word("imported"), Word("extra")>> >>,
      << <<Number("1", U32(0, 1))>> >>,
      NoString,
      << <<Number("1", U32(0, 1)), Word("imported")>>, <<>> >> }

ChannelNames == {"ipv4", "ipv6"}

\* The orders a hash map of channels may iterate in.
Orders == {<<"ipv4", "ipv6">>, <<"ipv6", "ipv4">>}

\* Blocks of a reply to "show protocols all": a BGP protocol with one channel
\* and each of the Routes values; one with two channels on different tables;
\* one with two channels whose counts add up to 2^32; a static protocol; a
\* BGP protocol with a neighbor AS, and one with a preference, that is no u32;
\* one whose route change stats are followed by a line without a key.
ProtocolBlocks ==
    { <<HeaderLine("R1", "BGP"), KeyValue("description", Str("peer")),
        KeyValue("neighbor as", << <<Number("65000", U32(0, 65000))>> >>),
        ChannelLine("ipv4"), KeyValue("table", Str("master4")),
        KeyValue("routes", row)>> : row \in Rows }
    \cup
    { <<HeaderLine("R2", "BGP"), KeyValue("description", Str("peer")),
        KeyValue("bgp state", Str("Established")),
        ChannelLine("ipv4"), KeyValue("table", Str("master4")),
        KeyValue("peer table", Str("peer4")),
        KeyValue("routes", << <<Number("2", U32(0, 2)), Word("imported")>> >>),
        ChannelLine("ipv6"), KeyValue("table", Str("master6")),
        KeyValue("peer table", Str("peer6")),
        KeyValue("routes", << <<Number("1", U32(0, 1)), Word("imported")>>,
                              <<Number("1", U32(0, 1)), Word("filtered")>> >>)>>,
      <<HeaderLine("R3", "BGP"), KeyValue("description", Str("peer")),
        ChannelLine("ipv4"), KeyValue("table", Str("master4")),
        KeyValue("routes", << <<Number("4294967295", U32Max), Word("imported")>> >>),
        ChannelLine("ipv6"), KeyValue("table", Str("master4")),
        KeyValue("routes", << <<Number("1", U32(0, 1)), Word("imported")>> >>)>>,
      <<HeaderLine("static1", "Static"), PlainLine>>,
      <<HeaderLine("R4", "BGP"), KeyValue("description", Str("peer")),
        KeyValue("neighbor as", Str("abc"))>>,
      <<HeaderLine("R5", "BGP"), KeyValue("description", Str("peer")),
        ChannelLine("ipv4"), KeyValue("preference", Str("high"))>>,
      <<HeaderLine("R6", "BGP"), KeyValue("description", Str("peer")),
        ChannelLine("ipv4"), KeyValue("route change stats", Str("received")),
        KeyValue("import updates", << <<Number("1", U32(0, 1))>> >>), PlainLine,
        KeyValue("table", Str("master4"))>> }

\* The replies: up to n blocks, one after the other.
RECURSIVE ProtocolReplies(_)
ProtocolReplies(n) ==
    IF n = 0 THEN {<<>>}
    ELSE {b \o r : b \in ProtocolBlocks, r \in ProtocolReplies(n - 1)}
         \cup ProtocolReplies(n - 1)

NotReparsed == [done |-> FALSE, block |-> <<>>, first |-> ProtocolErr, second |-> ProtocolErr]

ProtocolIdle ==
    /\ pInput = <<>>
    /\ pFilter = FALSE
    /\ pChecks = FALSE
    /\ pPos = 0
    /\ pLog = <<>>
    /\ pRecords = <<>>
    /\ pOutcome = "ended"
    /\ pAgain = NotReparsed

\* ProtocolReader::new(buf), with or without with_filter_bgp(), in a build
\* with or without overflow checks.
ProtocolInit ==
    /\ pInput \in ProtocolReplies(MaxProtocolBlocks)
    /\ pFilter \in BOOLEAN
    /\ pChecks \in BOOLEAN
    /\ pPos = 0
    /\ pLog = <<>>
    /\ pRecords = <<>>
    /\ pOutcome = "reading"
    /\ pAgain = NotReparsed

\* A call of ProtocolReader::next by the consumer of the reader, which stops
\* at the first None.
ProtocolNext ==
    /\ pOutcome = "reading"
    /\ \E order \in Orders :
         \E r \in {ProtocolReaderLoop(pInput, pPos, pFilter, pChecks, order, <<>>)} :
            /\ pPos' = r.pos
            /\ pLog' = pLog \o r.log
            /\ pRecords' = IF r.tag = "Some"
                              THEN Append(pRecords, [from |-> r.log[Len(r.log)].block,
                                                     protocol |-> r.log[Len(r.log)].result.protocol])
                              ELSE pRecords
            /\ pOutcome' = CASE r.tag = "Some" -> "reading"
                             [] r.tag = "None" -> "ended"
                             [] OTHER -> "panicked"
    /\ UNCHANGED <<pInput, pFilter, pChecks, pAgain>>
    /\ UNCHANGED nonProtocolVars

\* Protocol::parse on a block the reader has parsed, a second time.
ParseAgain ==
    /\ ~pAgain.done
    /\ \E i \in DOMAIN pLog : \E order \in Orders :
         pAgain' = [done |-> TRUE, block |-> pLog[i].block, first |-> pLog[i].result,
                    second |-> ProtocolParse(pLog[i].block, pFilter, pChecks, order)]
    /\ UNCHANGED <<pInput, pFilter, pChecks, pPos, pLog, pRecords, pOutcome>>
    /\ UNCHANGED nonProtocolVars

ProtocolSteps ==
    \/ ProtocolNext
    \/ ParseAgain

--------------------------------------------------------------------------
(* Route parser: parsers/routes.rs *)

\* Option<String>
NoneString == [some |-> FALSE, value |-> ""]
SomeString(text) == [some |-> TRUE, value |-> text]

\* Lines of a reply to a show route command, by what the parser finds in them.
\* kind "start" is a line RE_ROUTE_START ("1007-") matches, and nonspace says
\* that RE_ROUTES_START ("1007-\S") matches it too.
\* A 1007- line the header regex matches, with the prefix it captures ("" when
\* the group did not take part), the protocol, and whether the metric is a u32:
RouteHeader(prefix, nonspace, from, metric) ==
    [kind |-> "start", what |-> "header", key |-> from, value |-> metric,
     prefix |-> prefix, nonspace |-> nonspace]
\* a 1007- line the header regex does not match, as "1007-Table master4:":
RouteStartPlain ==
    [kind |-> "start", what |-> "plain", key |-> "", value |-> "", prefix |-> "",
     nonspace |-> TRUE]
\* the greeting, "0001 BIRD ... ready.":
Greeting ==
    [kind |-> "0001", what |-> "plain", key |-> "", value |-> "", prefix |-> "",
     nonspace |-> FALSE]
\* "via <gateway> on <interface>":
ViaLine ==
    [kind |-> "data", what |-> "via", key |-> "", value |-> "", prefix |-> "",
     nonspace |-> FALSE]
\* "<key>: <value>"; the value of an attribute is one character ("short") or
\* more ("long"); the value of a communities line holds tuples of its own form
\* ("ok"), a tuple with a part that is no number ("bad"), or nothing ("empty"):
RouteKeyValue(key, value) ==
    [kind |-> "data", what |-> "kv", key |-> key, value |-> value, prefix |-> "",
     nonspace |-> FALSE]
\* a line without key, the tuples of a communities list going on:
Continuation(value) ==
    [kind |-> "data", what |-> "plain", key |-> "", value |-> value, prefix |-> "",
     nonspace |-> FALSE]

\* Route::default(). header_prefix is the prefix the route's own header
\* carried, kept beside network for the claims.
DefaultRoute ==
    [neighbor_id |-> NoneString, network |-> "", header_prefix |-> "", attrs |-> {},
     communities |-> 0, large_communities |-> 0, ext_communities |-> 0]

\* enum State, with CommunityType
Route_Start == [name |-> "Start", community_type |-> "None"]
Route_Meta == [name |-> "Meta", community_type |-> "None"]
Route_BGP == [name |-> "BGP", community_type |-> "None"]
Route_Communities(type) == [name |-> "Communities", community_type |-> type]
Route_End == [name |-> "End", community_type |-> "None"]

\* Result<State> of a line parser, with the route as the line left it
RouteLineOk(route, state) == [tag |-> "Ok", route |-> route, state |-> state]
RouteLineErr(route, state) == [tag |-> "Err", route |-> route, state |-> state]
RouteLinePanic(route, state) == [tag |-> "Panic", route |-> route, state |-> state]

\* parse_route_header
parse_route_header(route, line) ==
    IF line.what # "header" THEN RouteLineOk(route, Route_Start)
    ELSE LET named == IF line.prefix # ""
                         THEN [route EXCEPT !.network = line.prefix,
                                            !.header_prefix = line.prefix]
                         ELSE route
         IN IF line.value # "ok" THEN RouteLineErr(named, Route_Start)
            ELSE RouteLineOk([named EXCEPT !.neighbor_id = SomeString(line.key)],
                             Route_Meta)

\* parse_route_meta
parse_route_meta(route, line) ==
    IF line.what = "via" THEN RouteLineOk(route, Route_Meta)
    ELSE IF line.what = "kv" /\ line.key = "Type"
            THEN RouteLineOk([route EXCEPT !.attrs = @ \cup {"type"}], Route_BGP)
            ELSE RouteLineOk(route, Route_BGP)

\* The keys parse_route_bgp records, without their "bgp." or "bgp_".
BgpKeys == {"origin", "as_path", "path", "next_hop", "otc", "med", "local_pref"}

\* key.starts_with("bgp"), for the keys of the lines above
StartsWithBgp(key) ==
    key \in {"bgp." \o k : k \in BgpKeys \cup {"community", "large_community",
                                             "ext_community"}}

\* &key[4..]
AfterBgp(key) ==
    CHOOSE k \in BgpKeys \cup {"community", "large_community", "ext_community"} :
        key = "bgp." \o k

\* parse_route_bgp
parse_route_bgp(route, line) ==
    IF line.what # "kv" \/ ~StartsWithBgp(line.key) THEN RouteLineOk(route, Route_BGP)
    ELSE LET key == AfterBgp(line.key)
         IN IF key = "local_pref"
               THEN RouteLineOk([route EXCEPT !.attrs = @ \cup {key}],
                                Route_Communities("None"))
            ELSE IF key \in BgpKeys
               THEN RouteLineOk([route EXCEPT !.attrs = @ \cup {key}], Route_BGP)
            ELSE RouteLineOk(route, Route_BGP)

\* The community type a line of the communities section names, if any.
NextType(community_type, line) ==
    IF line.what = "kv" /\ line.key = "bgp.community" THEN "Standard"
    ELSE IF line.what = "kv" /\ line.key = "bgp.large_community" THEN "Large"
    ELSE IF line.what = "kv" /\ line.key = "bgp.ext_community" THEN "Extended"
    ELSE community_type

\* parse_route_communities. parse_community slices s[1..s.len() - 1] and
\* parse_large_communities unwraps the parse of each part of a tuple.
parse_route_communities(route, community_type, line) ==
    LET next_type == NextType(community_type, line)
        stay == Route_Communities(next_type)
    IN IF line.value \in {"", "empty"} THEN RouteLineOk(route, stay)
       ELSE IF next_type = "Standard"
               THEN IF line.value = "ok"
                       THEN RouteLineOk([route EXCEPT !.communities = @ + 1], stay)
                    ELSE IF line.value = "short" THEN RouteLinePanic(route, stay)
                    ELSE RouteLineErr(route, stay)
       ELSE IF next_type = "Large"
               THEN IF line.value = "ok"
                       THEN RouteLineOk([route EXCEPT !.large_communities = @ + 1], stay)
                    ELSE IF line.value = "bad" THEN RouteLinePanic(route, stay)
                    ELSE RouteLineOk(route, stay)
       ELSE IF next_type = "Extended"
               THEN IF line.value \in {"ok", "bad"}
                       THEN RouteLineOk([route EXCEPT !.ext_communities = @ + 1], stay)
                       ELSE RouteLineOk(route, stay)
       ELSE RouteLineOk(route, Route_End)

\* parse_line of parsers/routes.rs
route_parse_line(route, state, line) ==
    CASE state.name = "Start" -> parse_route_header(route, line)
      [] state.name = "Meta" -> parse_route_meta(route, line)
      [] state.name = "BGP" -> parse_route_bgp(route, line)
      [] state.name = "Communities" ->
            parse_route_communities(route, state.community_type, line)
      [] OTHER -> RouteLineOk(route, Route_End)

\* "for line in block.iter()" of Route::parse, from line i on
RECURSIVE RouteParseLines(_, _, _, _)
RouteParseLines(block, i, route, state) ==
    IF i > Len(block) THEN RouteLineOk(route, state)
    ELSE Only({ IF r.tag = "Ok" THEN RouteParseLines(block, i + 1, r.route, r.state)
                ELSE r
                : r \in {route_parse_line(route, state, block[i])} })

\* Route::parse(block)
RouteParse(block) == RouteParseLines(block, 1, DefaultRoute, Route_Start)

\* Mutant of DropsRoute: every route is pushed.
DropsRoute_Never(route) == FALSE

\* "if route.neighbor_id.is_none() { continue; }"
DropsRoute(route) == ~route.neighbor_id.some

\* Result<PrefixGroup>, or the panic of the call
GroupOk(routes) == [tag |-> "Ok", routes |-> routes]
GroupErr == [tag |-> "Err", routes |-> <<>>]
GroupPanic == [tag |-> "Panic", routes |-> <<>>]

\* The loop of PrefixGroup::parse over the blocks of BlockGroup, from `pos`
\* lines handed out, with the routes pushed and the current prefix.
RECURSIVE PrefixGroupLoop(_, _, _, _)
PrefixGroupLoop(lines, pos, routes, prefix) ==
    Only({ IF ~b.item.some THEN GroupOk(routes)
           ELSE IF b.item.block[1].kind = "0001"
                   THEN PrefixGroupLoop(lines, b.pos, routes, prefix)
           ELSE Only({ LET route == IF r.route.network = ""
                                       THEN [r.route EXCEPT !.network = prefix]
                                       ELSE r.route
                           current == IF r.route.network = "" THEN prefix
                                      ELSE r.route.network
                       IN IF r.tag = "Err" THEN GroupErr
                          ELSE IF r.tag = "Panic" THEN GroupPanic
                          ELSE IF DropsRoute(route)
                                  THEN PrefixGroupLoop(lines, b.pos, routes, current)
                                  ELSE PrefixGroupLoop(lines, b.pos,
                                                       Append(routes, route), current)
                       : r \in {RouteParse(b.item.block)} })
           : b \in {BlockGroupNext(lines, pos)} })

\* PrefixGroup::parse(block)
PrefixGroupParse(block) == PrefixGroupLoop(block, 0, <<>>, "")

\* The route blocks a block of BlockIterator over RE_ROUTES_START begins with:
\* a route with prefix, gateway, type, attributes and communities; a route
\* with another prefix and nothing else; a 1007- line that is no route header,
\* with a line after it; a route whose header matches while the text after
\* "1007-" is no prefix to the regex, as
\* "1007-flow4 { dst 10.0.0.0/8; } unreachable [R4 12:00:00] * (100) [i]";
\* a route with a prefix whose metric is no u32.
FirstRouteBlocks ==
    { <<RouteHeader("10.0.0.0/8", TRUE, "R1", "ok"), ViaLine,
        RouteKeyValue("Type", "long"), RouteKeyValue("bgp.origin", "long"),
        RouteKeyValue("bgp.local_pref", "long"), RouteKeyValue("bgp.community", "ok"),
        Continuation("ok")>>,
      <<RouteHeader("10.1.0.0/16", TRUE, "R3", "ok")>>,
      <<RouteStartPlain, ViaLine>>,
      <<RouteHeader("", TRUE, "R4", "ok"), RouteKeyValue("Type", "long")>>,
      <<RouteHeader("10.2.0.0/16", TRUE, "R4", "bad")>> }

\* The route blocks that go on in it ("1007-" and white space, no prefix): a
\* route; a line that is no route header; a route whose metric is no u32;
\* routes with a standard and a large community that do not parse; a route
\* with an attribute after its communities; a route with a communities line
\* and no local_pref line before it; a route with an attribute between two
\* lines of large communities; a route with an attribute after local_pref
\* and then a communities line.
MoreRouteBlocks ==
    { <<RouteHeader("", FALSE, "R2", "ok"), ViaLine, RouteKeyValue("Type", "long")>>,
      <<[RouteStartPlain EXCEPT !.nonspace = FALSE], ViaLine>>,
      <<RouteHeader("", FALSE, "R4", "bad")>>,
      <<RouteHeader("", FALSE, "R5", "ok"), RouteKeyValue("Type", "long"),
        RouteKeyValue("bgp.local_pref", "long"), RouteKeyValue("bgp.community", "bad")>>,
      <<RouteHeader("", FALSE, "R6", "ok"), RouteKeyValue("Type", "long"),
        RouteKeyValue("bgp.local_pref", "long"),
        RouteKeyValue("bgp.large_community", "bad")>>,
      <<RouteHeader("", FALSE, "R7", "ok"), RouteKeyValue("Type", "long"),
        RouteKeyValue("bgp.local_pref", "long"), RouteKeyValue("bgp.community", "ok"),
        RouteKeyValue("bgp.med", "short")>>,
      <<RouteHeader("", FALSE, "R8", "ok"), RouteKeyValue("Type", "long"),
        RouteKeyValue("bgp.origin", "long"), RouteKeyValue("bgp.community", "ok")>>,
      <<RouteHeader("", FALSE, "R9", "ok"), RouteKeyValue("Type", "long"),
        RouteKeyValue("bgp.local_pref", "long"),
        RouteKeyValue("bgp.large_community", "ok"), RouteKeyValue("bgp.otc", "long"),
        RouteKeyValue("bgp.large_community", "ok")>>,
      <<RouteHeader("", FALSE, "R10", "ok"), RouteKeyValue("Type", "long"),
        RouteKeyValue("bgp.local_pref", "long"), RouteKeyValue("bgp.med", "long"),
        RouteKeyValue("bgp.community", "ok")>> }

\* Up to n route blocks that go on, one after the other.
RECURSIVE MoreRoutes(_)
MoreRoutes(n) ==
    IF n = 0 THEN {<<>>}
    ELSE {b \o g : b \in MoreRouteBlocks, g \in MoreRoutes(n - 1)} \cup MoreRoutes(n - 1)

\* The blocks BlockIterator hands out for a reply: the lines before the first
\* line RE_ROUTES_START matches (the greeting), and then blocks of up to n
\* route blocks, of which the first and only the first begins with such a line.
RouteGroups(n) ==
    {<<Greeting>>} \cup {b \o g : b \in FirstRouteBlocks, g \in MoreRoutes(n - 1)}

NotParsedYet == [tag |-> "none", routes |-> <<>>]

RouteIdle ==
    /\ rBlock = <<>>
    /\ rResult = GroupOk(<<>>)

\* A block handed to PrefixGroup::parse
RouteInit ==
    /\ rBlock \in RouteGroups(MaxGroupRoutes)
    /\ rResult = NotParsedYet

\* The call PrefixGroup::parse(block)
ParseGroup ==
    /\ rResult = NotParsedYet
    /\ rResult' = PrefixGroupParse(rBlock)
    /\ UNCHANGED rBlock
    /\ UNCHANGED nonRouteVars

RouteSteps == ParseGroup

--------------------------------------------------------------------------
(* Concurrent requests on one endpoint cache: api/routes.rs, api/status.rs *)

\* The handler invocations that run at the same time, all with the same key.
Invocations == 1..NumInvocations

\* The key of the requests, and the key of an entry the cache may hold at
\* the start.
RequestKey == "a"
OtherKey == "b"

\* The payload invocation i builds from its own dialog.
PayloadOf(i) == <<"reply", i>>

MissIdle ==
    /\ mMax = 1
    /\ mNow = 0
    /\ mResponses = <<>>
    /\ mMutex = 0
    /\ mpc = [i \in Invocations |-> "done"]
    /\ mMissed = {}
    /\ mFetched = {}
    /\ mPuts = <<>>

\* The endpoint's cache, empty or with an entry of another key put at clock
\* reading 0, and the handlers at their first statement.
MissInit ==
    /\ mMax \in 1..MaxEntries
    /\ mNow \in 0..1
    /\ mResponses \in {<<>>, Insert(<<>>, OtherKey,
                                     MarkCached(FreshResponse(<<"reply", 0>>, 0), 0, 0))}
    /\ mMutex = 0
    /\ mpc = [i \in Invocations |-> "start"]
    /\ mMissed = {}
    /\ mFetched = {}
    /\ mPuts = <<>>

\* Time passes.
MissTick ==
    /\ mNow < MaxMissClock
    /\ mNow' = mNow + 1
    /\ UNCHANGED <<mMax, mResponses, mMutex, mpc, mMissed, mFetched, mPuts>>
    /\ UNCHANGED nonMissVars

\* "let cache = CACHE.lock().await;" of the lookup block
LockForGet(i) ==
    /\ mpc[i] = "start"
    /\ mMutex = 0
    /\ mMutex' = i
    /\ mpc' = [mpc EXCEPT ![i] = "get"]
    /\ UNCHANGED <<mMax, mNow, mResponses, mMissed, mFetched, mPuts>>
    /\ UNCHANGED nonMissVars

\* "cache.get(&key).cloned()" and the end of the block, where the guard is
\* dropped: Some(res) is returned, None goes on to the daemon.
GetAndUnlock(i) ==
    /\ mpc[i] = "get"
    /\ mMutex' = 0
    /\ IF GetResult(mResponses, RequestKey, mNow) = NoResponse
          THEN /\ mpc' = [mpc EXCEPT ![i] = "fetch"]
               /\ mMissed' = mMissed \cup {i}
          ELSE /\ mpc' = [mpc EXCEPT ![i] = "done"]
               /\ UNCHANGED mMissed
    /\ UNCHANGED <<mMax, mNow, mResponses, mFetched, mPuts>>
    /\ UNCHANGED nonMissVars

\* birdc.show_...().await: the connection is acquired and the command written
StartDialog(i) ==
    /\ mpc[i] = "fetch"
    /\ mpc' = [mpc EXCEPT ![i] = "dialog"]
    /\ mFetched' = mFetched \cup {i}
    /\ UNCHANGED <<mMax, mNow, mResponses, mMutex, mMissed, mPuts>>
    /\ UNCHANGED nonMissVars

\* The reply is read to its end and the response built.
EndDialog(i) ==
    /\ mpc[i] = "dialog"
    /\ mpc' = [mpc EXCEPT ![i] = "built"]
    /\ UNCHANGED <<mMax, mNow, mResponses, mMutex, mMissed, mFetched, mPuts>>
    /\ UNCHANGED nonMissVars

\* Mutant of LockForPut: the guard of the lookup is kept over the dialog, so
\* the put needs no second lock.
LockForPut_Kept(i) ==
    /\ mpc[i] = "built"
    /\ mMutex' = i
    /\ mpc' = [mpc EXCEPT ![i] = "put"]
    /\ UNCHANGED <<mMax, mNow, mResponses, mMissed, mFetched, mPuts>>
    /\ UNCHANGED nonMissVars

\* "let mut cache = CACHE.lock().await;" before the put
LockForPut(i) ==
    /\ mpc[i] = "built"
    /\ mMutex = 0
    /\ mMutex' = i
    /\ mpc' = [mpc EXCEPT ![i] = "put"]
    /\ UNCHANGED <<mMax, mNow, mResponses, mMissed, mFetched, mPuts>>
    /\ UNCHANGED nonMissVars

\* "cache.put(&key, response.clone()); Ok(response)": ResponseCache::put with
\* its clock readings t0 <= t1 <= t2 (mark_cached twice, the evictions), then
\* the guard is dropped.
PutAndUnlock(i) ==
    /\ mpc[i] = "put"
    /\ \E t1, t2 \in 0..MaxMissClock :
          LET t0 == mNow
              value == MarkCached(FreshResponse(PayloadOf(i), mNow), t0, t1)
              inserted == Insert(mResponses, RequestKey, value)
              expired == IF Cardinality(DOMAIN inserted) > mMax
                            THEN EvictExpired(inserted, t2) ELSE inserted
          IN /\ t0 <= t1 /\ t1 <= t2 /\ t2 - t0 <= 1
             /\ mNow' = t2
             /\ IF Cardinality(DOMAIN expired) > mMax
                   THEN mResponses' \in EvictOldest(expired, t2)
                   ELSE mResponses' = expired
             /\ mPuts' = Append(mPuts, value)
    /\ mMutex' = 0
    /\ mpc' = [mpc EXCEPT ![i] = "done"]
    /\ UNCHANGED <<mMax, mMissed, mFetched>>
    /\ UNCHANGED nonMissVars

MissSteps ==
    \/ MissTick
    \/ \E i \in Invocations : LockForGet(i)
    \/ \E i \in Invocations : GetAndUnlock(i)
    \/ \E i \in Invocations : StartDialog(i)
    \/ \E i \in Invocations : EndDialog(i)
    \/ \E i \in Invocations : LockForPut(i)
    \/ \E i \in Invocations : PutAndUnlock(i)

--------------------------------------------------------------------------
(* Specifications *)

InitPool ==
    /\ PoolInit
    /\ WorkersIdle /\ CacheIdle /\ LimiterIdle /\ QueryIdle /\ FramerIdle
    /\ HandlerIdle /\ ProtocolIdle /\ RouteIdle /\ MissIdle

SpecPool == InitPool /\ [][PoolNext]_vars

\* The dispatcher and the release tasks are tokio tasks, and every caller
\* that got a Connection goes on to drop it: while one of them can take its
\* next step, one of them eventually does. (Fairness for each task on its own
\* implies this condition.)
PoolFairness ==
    WF_vars(\/ DispRecv \/ DispWait \/ DispDrain \/ DispIssue
            \/ \E c \in Callers : ReleaseSend(c)
            \/ \E c \in Callers : Open(c) \/ EndOfLet(c) \/ FinishDialog(c))

FairSpecPool == SpecPool /\ PoolFairness

InitWorkers ==
    /\ WorkersInit
    /\ PoolIdle /\ CacheIdle /\ LimiterIdle /\ QueryIdle /\ FramerIdle
    /\ HandlerIdle /\ ProtocolIdle /\ RouteIdle /\ MissIdle

SpecWorkers == InitWorkers /\ [][WorkersNext]_vars

\* The pool dispatcher and the workers are threads of the blocking executor,
\* the handler is a task in its receive loop: while one of them can take its
\* next step, one of them eventually does. (Fairness for each thread on its
\* own implies this condition.)
WorkersFairness ==
    WF_vars(\/ DispatchRecv \/ DispatchAccept
            \/ \E w \in WorkerIds : WorkerRecv(w) \/ WorkerSend(w)
            \/ \E r \in Requests : ConsumerRecv(r))

FairSpecWorkers == SpecWorkers /\ WorkersFairness

\* The request whose handler may stop receiving.
StalledRequest == NumRequests

\* The same, with the handler of one request that may stop receiving at any
\* time while it keeps its receiver: no step of its receive loop is promised.
StalledFairness ==
    WF_vars(\/ DispatchRecv \/ DispatchAccept
            \/ \E w \in WorkerIds : WorkerRecv(w) \/ WorkerSend(w)
            \/ \E r \in Requests \ {StalledRequest} : ConsumerRecv(r))

StalledSpecWorkers == SpecWorkers /\ StalledFairness

InitCache ==
    /\ CacheInit
    /\ PoolIdle /\ WorkersIdle /\ LimiterIdle /\ QueryIdle /\ FramerIdle
    /\ HandlerIdle /\ ProtocolIdle /\ RouteIdle /\ MissIdle

SpecCache == InitCache /\ [][CacheNext]_vars

InitLimiter ==
    /\ LimiterInit
    /\ PoolIdle /\ WorkersIdle /\ CacheIdle /\ QueryIdle /\ FramerIdle
    /\ HandlerIdle /\ ProtocolIdle /\ RouteIdle /\ MissIdle

SpecLimiter == InitLimiter /\ [][LimiterNext]_vars

InitQuery ==
    /\ QueryInit
    /\ PoolIdle /\ WorkersIdle /\ CacheIdle /\ LimiterIdle /\ FramerIdle
    /\ HandlerIdle /\ ProtocolIdle /\ RouteIdle /\ MissIdle

SpecQuery == InitQuery /\ [][QueryNext]_vars

InitFramer ==
    /\ FramerInit
    /\ PoolIdle /\ WorkersIdle /\ CacheIdle /\ LimiterIdle /\ QueryIdle
    /\ HandlerIdle /\ ProtocolIdle /\ RouteIdle /\ MissIdle

SpecFramer == InitFramer /\ [][FramerSteps]_vars

InitHandler ==
    /\ HandlerIdle
    /\ PoolIdle /\ WorkersIdle /\ CacheIdle /\ LimiterIdle /\ QueryIdle
    /\ FramerIdle /\ ProtocolIdle /\ RouteIdle /\ MissIdle

SpecHandler == InitHandler /\ [][HandlerNext]_vars

InitProtocol ==
    /\ ProtocolInit
    /\ PoolIdle /\ WorkersIdle /\ CacheIdle /\ LimiterIdle /\ QueryIdle
    /\ FramerIdle /\ HandlerIdle /\ RouteIdle /\ MissIdle

SpecProtocol == InitProtocol /\ [][ProtocolSteps]_vars

InitRoute ==
    /\ RouteInit
    /\ PoolIdle /\ WorkersIdle /\ CacheIdle /\ LimiterIdle /\ QueryIdle
    /\ FramerIdle /\ HandlerIdle /\ ProtocolIdle /\ MissIdle

SpecRoute == InitRoute /\ [][RouteSteps]_vars

InitMisses ==
    /\ MissInit
    /\ PoolIdle /\ WorkersIdle /\ CacheIdle /\ LimiterIdle /\ QueryIdle
    /\ FramerIdle /\ HandlerIdle /\ ProtocolIdle /\ RouteIdle

SpecMisses == InitMisses /\ [][MissSteps]_vars

--------------------------------------------------------------------------
(* Claims about the response cache *)

\* C7: after any sequence of puts, at any clock values, the cache holds at
\* most max_entries entries.
C7_AtMostMaxEntries == Cardinality(DOMAIN responses) <= maxEntries

\* C8: when a put makes the cache exceed max_entries and no entry is expired,
\* exactly one entry is evicted, it is one with the oldest cached_at, and it
\* is never the entry just inserted.
C8_EvictsOldestNotInserted ==
    [][nputs' = nputs + 1 =>
         LET k == lastPut'.key
             before == Insert(responses, k,
                              [payload |-> lastPut'.payload, result_from_cache |-> TRUE,
                               date |-> lastPut'.date, cached_at |-> lastPut'.cached_at])
             exceeds == Cardinality(DOMAIN before) > maxEntries
             noneExpired == \A j \in DOMAIN before :
                               /\ now' - before[j].date <= ttl
                               /\ ~IsExpired(before[j], now')
         IN (exceeds /\ noneExpired) =>
               /\ k \in DOMAIN responses'
               /\ \E e \in DOMAIN before :
                     /\ DOMAIN responses' = (DOMAIN before) \ {e}
                     /\ \A j \in DOMAIN before :
                           before[e].cached_at <= before[j].cached_at
    ]_vars

\* C9: put(k, v) followed by get(k) within the TTL, no other put in between,
\* returns v with the from-cache flag set and cached_at the time of the put.
C9_PutThenGet ==
    (lastPut # NoResponse /\ now - lastPut.date <= ttl) =>
        LET r == GetResult(responses, lastPut.key, now)
        IN /\ r # NoResponse
           /\ r.payload = lastPut.payload
           /\ r.result_from_cache
           /\ r.cached_at = lastPut.cached_at

\* C10: get(key) returns absent exactly when the entry is missing or its age
\* now - cached_at is greater than the TTL configured for the cache.
C10_AbsentIffMissingOrOlderThanTTL ==
    \A k \in Keys :
        (GetResult(responses, k, now) = NoResponse)
            <=> (k \notin DOMAIN responses \/ now - responses[k].date > ttl)

--------------------------------------------------------------------------
(* Claims about the routes worker pool *)

Range(s) == {s[i] : i \in DOMAIN s}
BagOfSeq(s) == [x \in Range(s) |-> Cardinality({i \in DOMAIN s : s[i] = x})]

\* The jobs of request r that are on their way: in the pool's queue, with the
\* dispatcher, in a worker's queue.
QueuedJobs(r) ==
    LET mine(q) == SelectSeq(q, LAMBDA j : j.results = r)
        RECURSIVE Cat(_)
        Cat(n) == IF n = 0 THEN <<>> ELSE Cat(n - 1) \o mine(wq[n - 1])
    IN mine(jobs) \o mine(djob) \o Cat(numWorkers)

\* The results of request r that workers have parsed and not yet sent.
HeldResults(r) ==
    LET RECURSIVE Cat(_)
        Cat(n) == IF n = 0 THEN <<>>
                  ELSE Cat(n - 1) \o
                       (IF wres[n - 1] # <<>> /\ wres[n - 1][1].results = r
                           THEN <<wres[n - 1][1].result>> ELSE <<>>)
    IN Cat(numWorkers)

ParsedSeq(blocks) == [i \in DOMAIN blocks |-> ParsePrefixGroup(blocks[i])]
JobBlocks(q) == [i \in DOMAIN q |-> q[i].block]

\* C4: while a request's receiver is open, every submitted block accounts
\* for exactly one result: received, in the request's own sink, held by a
\* worker or still to be parsed; once nothing is on its way the bag of
\* results received equals the bag of PrefixGroup::parse over the blocks.
C4_ExactlyOneResult ==
    \A r \in Requests :
        rxOpen[r] =>
            /\ received[r] (+) BagOfSeq(sink[r]) (+) BagOfSeq(HeldResults(r))
                    (+) BagOfSeq(ParsedSeq(JobBlocks(QueuedJobs(r))))
               = BagOfSeq(ParsedSeq(submitted[r]))
            /\ (QueuedJobs(r) = <<>> /\ HeldResults(r) = <<>> /\ sink[r] = <<>>)
                  => received[r] = BagOfSeq(ParsedSeq(submitted[r]))

\* C4 witness: with two workers, two requests have fed their whole replies,
\* one with a block that parses and one with a block that does not, and each
\* handler has received every result of its own request.
C4_Witness ==
    \E r, q \in Requests :
        /\ r # q
        /\ numWorkers >= 2
        /\ rxOpen[r] /\ fpc[r] = "done"
        /\ rxOpen[q] /\ fpc[q] = "done"
        /\ Len(submitted[r]) >= 1 /\ Len(submitted[q]) >= 1
        /\ submitted[r][1].bad /\ ~submitted[q][1].bad
        /\ BagCardinality(received[r]) = Len(submitted[r])
        /\ BagCardinality(received[q]) = Len(submitted[q])

\* A worker is handling a job of a request whose receiver is dropped.
HandlesClosedJob(w) ==
    \/ wres[w] # <<>> /\ IsClosed(wres[w][1].results)
    \/ wres[w] = <<>> /\ wq[w] # <<>> /\ IsClosed(Head(wq[w]).results)

\* A job of a request whose receiver is open is queued while some worker
\* handles a job of a dropped receiver.
BehindClosedJob ==
    /\ \E w \in WorkerIds : HandlesClosedJob(w)
    /\ \E q \in Requests : rxOpen[q] /\ QueuedJobs(q) # <<>>

\* No job of an open receiver is queued or held: each has been parsed and its
\* result sent to the request's own sink.
OpenJobsDelivered ==
    \A q \in Requests :
        rxOpen[q] =>
            /\ QueuedJobs(q) = <<>>
            /\ HeldResults(q) = <<>>
            /\ received[q] (+) BagOfSeq(sink[q]) = BagOfSeq(ParsedSeq(submitted[q]))

\* C5: a worker that handles a job of a request whose receiver is dropped
\* neither blocks nor stops: whatever the workers hold, jobs of dropped
\* receivers included, the jobs of the requests still listening are again and
\* again all parsed and delivered to their own sinks; in particular those
\* queued behind a job of a dropped receiver are.
C5_ClosedSinkDoesNotStall == []<>OpenJobsDelivered

\* C5 witness: the only worker holds a parsed result of a request whose
\* receiver is dropped, and a job of an open request waits in its queue.
C5_Witness ==
    \E q \in Requests :
        /\ BehindClosedJob
        /\ numWorkers = 1
        /\ wres[0] # <<>> /\ IsClosed(wres[0][1].results)
        /\ wq[0] # <<>> /\ Head(wq[0]).results = q /\ rxOpen[q]

\* C6: after the handler has dropped the result receiver of a request, the
\* feeder of that request submits no further block of the reply.
C6_FeederStopsAfterDrop ==
    [][\A r \in Requests : IsClosed(r) => submitted'[r] = submitted[r]]_vars

\* The blocks of request r among the jobs of a sequence.
BlocksFor(r, js) ==
    LET mine(j) == j.results = r
        picked == SelectSeq(js, mine)
    IN [i \in DOMAIN picked |-> picked[i].block]

\* The jobs the dispatcher has received, in the order it received them.
DispatchedJobs == [i \in DOMAIN dispatched |-> dispatched[i].job]

\* s is the beginning of t.
IsPrefix(s, t) == Len(s) <= Len(t) /\ s = SubSeq(t, 1, Len(s))

\* C34: the dispatcher hands consecutive jobs to the workers in cyclic order,
\* for every configured pool size: each job it receives gets a worker of the
\* pool, any numWorkers consecutive jobs go to distinct workers, jobs j and
\* j + numWorkers go to the same worker; and the jobs of a request pass
\* through the pool's queue in the order the framer emitted their blocks.
C34_RoundRobinForEveryPoolSize ==
    /\ \A j \in DOMAIN dispatched :
          /\ dispatched[j].worker # <<>>
          /\ dispatched[j].worker[1] \in WorkerIds
    /\ \A j, k \in DOMAIN dispatched :
          /\ (j < k /\ k < j + numWorkers) => dispatched[j].worker # dispatched[k].worker
          /\ k = j + numWorkers => dispatched[j].worker = dispatched[k].worker
    /\ \A r \in Requests :
          IsPrefix(BlocksFor(r, DispatchedJobs) \o BlocksFor(r, jobs), submitted[r])

\* No sender of the result sink of request r remains: its feeder task has
\* ended, and no job of the request is queued or held by a worker.
NoSender(r) ==
    /\ fpc[r] # "feeding"
    /\ QueuedJobs(r) = <<>>
    /\ HeldResults(r) = <<>>

\* results.recv() of the handler of request r returns None: the sink is
\* closed and holds no result.
RecvReturnsNone(r) == rxOpen[r] /\ NoSender(r) /\ sink[r] = <<>>

\* C35: for every routes request, once its framer has emitted its last block
\* (the feeder task has ended), the result sink is eventually closed after
\* the last result: no sender remains and the receive loop of a handler that
\* keeps receiving ends (unless the handler has dropped the receiver before).
C35_SinkEventuallyClosed ==
    \A r \in Requests : (fpc[r] # "feeding") ~> (IsClosed(r) \/ RecvReturnsNone(r))

\* C35 witness: the handler of a request has received the results of all the
\* MaxBlocks blocks of its reply, and its next recv returns None.
C35_Witness ==
    \E r \in Requests :
        /\ RecvReturnsNone(r)
        /\ Len(submitted[r]) = MaxBlocks
        /\ BagCardinality(received[r]) = MaxBlocks

\* The jobs of the requests other than StalledRequest, as far as their
\* receivers are open, are all parsed and delivered to their own sinks.
OthersDelivered ==
    \A q \in Requests \ {StalledRequest} :
        rxOpen[q] =>
            /\ QueuedJobs(q) = <<>>
            /\ HeldResults(q) = <<>>
            /\ received[q] (+) BagOfSeq(sink[q]) = BagOfSeq(ParsedSeq(submitted[q]))

\* C39: a request whose handler stops receiving while it keeps its receiver
\* open, its sink staying full, cannot stall the other requests: the blocks
\* they submit to the pool are still eventually parsed and delivered to
\* their own sinks.
C39_FullSinkDoesNotStallOthers == []<>OthersDelivered

--------------------------------------------------------------------------
(* Claims about the connection pool *)

OpenSockets == {c \in Callers : sock[c]}
HeldWrappers == {c \in Callers : wrapper[c] = "held"}

\* C1: at every moment the number of open daemon control sockets (opened
\* through a pooled Connection, dialog not finished) is at most the pool limit.
C1_OpenSocketsWithinLimit == Cardinality(OpenSockets) <= limit

\* C2: when the counter is at or above limit the dispatcher issues nothing
\* before it has received a release, so the number of Connection wrappers
\* issued and not yet released never exceeds limit.
C2_IssuedWithinLimit ==
    /\ (dpc = "issue" => size < limit)
    /\ Cardinality(HeldWrappers) <= limit

C38_CounterNeverUnderCounts ==
    /\ Cardinality(HeldWrappers) <= size
    /\ dpc # "underflow"

\* No acquire is waiting for its Connection: each call made so far has
\* returned one, or its future was dropped before.
NoAcquireWaits == \A c \in Callers : pc[c] # "queued"

\* C36: every call of ConnectionPool::acquire eventually returns a
\* Connection, when every issued Connection is eventually dropped and the
\* dispatcher and the release tasks are scheduled fairly: the pool never
\* deadlocks, for every limit of at least 1 and every number of callers.
\* (A caller calls acquire once: a call that has returned never waits again.)
C36_AcquireEventuallyReturns == []<>NoAcquireWaits

--------------------------------------------------------------------------
(* Claims about the rate limiter *)

\* C11: for every key, the checks allowed within the key's current window
\* (since its window_start) never number more than `requests`.
C11_AtMostRequestsPerWindow ==
    \A k \in DOMAIN buckets : allowed[k] <= rlRequests

\* C12: a check on a key made more than `window` after the bucket's
\* window_start is allowed whatever the bucket's count, and the bucket's
\* window_start becomes the clock reading of that check.
C12_AllowsAfterWindow ==
    [][\A k \in DOMAIN buckets :
          (/\ nchecks' = nchecks + 1
           /\ lastCheck'.key = k
           /\ (rlNow - buckets[k].window_start) > rlWindow)
          => (/\ lastCheck'.result
              /\ buckets'[k].count = 0
              /\ buckets'[k].window_start >= rlNow
              /\ buckets'[k].window_start <= rlNow')]_vars

\* C12 witness: the last check found a bucket that had used up its window
\* (count = requests > 0), more than `window` after its start, and allowed.
C12_Witness ==
    /\ lastCheck # NoCheck
    /\ lastCheck.over /\ lastCheck.result
    /\ rlRequests > 0 /\ lastCheck.count = rlRequests
    /\ buckets[lastCheck.key].window_start >= lastCheck.at

--------------------------------------------------------------------------
(* Claims about query values and daemon commands *)

\* The characters [A-Za-z0-9_.:] of the alphabet.
AllowedChars == {"a", "Z", "7", "_", ".", ":"}

\* The number of characters of a string.
CharCount(s) == Len(s.head) + s.fill

Acceptable(s) ==
    /\ CharCount(s) > 0
    /\ CharCount(s) <= 128
    /\ CharsOf(s) \subseteq AllowedChars

ParsedAsClaimed(r) ==
    r # NotParsed =>
        /\ r.ok <=> Acceptable(r.input)
        /\ r.ok => r.value = r.input
        /\ ~r.ok => /\ r.reason \in {"is empty", "is too long",
                                      "contains invalid characters"}
                    /\ "value" \notin DOMAIN r

\* C14: QueryValue::parse(s) succeeds, with the value s unchanged, exactly
\* when s is non-empty, at most 128 characters long and made of characters
\* from [A-Za-z0-9_.:]; otherwise it returns a validation error and no value.
C14_ParseAcceptsExactly == ParsedAsClaimed(qTable) /\ ParsedAsClaimed(qPeer)

\* C14 witness: a table of 128 characters has been accepted and a peer of 129
\* characters has been refused as too long.
C14_Witness ==
    /\ qTable # NotParsed /\ qTable.ok /\ CharCount(qTable.input) = 128
    /\ qPeer # NotParsed /\ ~qPeer.ok /\ CharCount(qPeer.input) = 129
    /\ qPeer.reason = "is too long"

ParsedValues == {r.value : r \in {x \in {qTable, qPeer} : x # NotParsed /\ x.ok}}

\* C15: in every command built from QueryValue parameters, each embedded
\* value is a parsed value, unchanged, stands between two single quotes and
\* brings only characters from [A-Za-z0-9_.:] into the command.
C15_ValuesQuoted ==
    \A i \in DOMAIN qCmd :
        "arg" \in DOMAIN qCmd[i] =>
            /\ qCmd[i].arg \in ParsedValues
            /\ i > 1 /\ qCmd[i - 1] = Lit("'")
            /\ i < Len(qCmd) /\ qCmd[i + 1] = Lit("'")
            /\ CharsOf(qCmd[i].arg) \subseteq AllowedChars

--------------------------------------------------------------------------
(* Claims about the block framers *)

\* The line iterator has handed out a line beginning with `prefix`.
HasRead(prefix) == \E i \in 1..fpos : StartsWith(finput[i], prefix)

\* C18: once the block framer has read a line beginning with 0000 no call of
\* next returns a block, whatever lines follow; an input that is one 0000
\* line yields no block.
C18_NoBlocksAfter0000 ==
    [][fuser # "group" =>
          /\ HasRead("0000") => yielded' = yielded
          /\ (Len(finput) = 1 /\ StartsWith(finput[1], "0000")) => yielded' = <<>>]_vars

\* The lines a block or a record is made from come before every 9001 line.
Before9001(block) ==
    \A i \in DOMAIN block :
        \A j \in DOMAIN finput :
            StartsWith(finput[j], "9001") => block[i].at < j

\* C19: the framer yields no block, and the readers built on it no record,
\* made from a line that follows a 9001 line of the input.
C19_NothingPast9001 ==
    fuser # "group" =>
        /\ \A n \in DOMAIN yielded : Before9001(yielded[n])
        /\ \A n \in DOMAIN records : Before9001(records[n].from)

RECURSIVE Concat(_)
Concat(blocks) == IF blocks = <<>> THEN <<>> ELSE Head(blocks) \o Concat(Tail(blocks))

NoSentinels == \A i \in DOMAIN finput : finput[i].kind \notin {"0000", "9001"}

\* C20: for an input without sentinel lines and a framer without stop regex
\* (BlockIterator or BlockGroup), the blocks are non-empty, their
\* concatenation is the input read so far and the whole input once next
\* has returned None, every block after the first begins with a line that
\* matches the start regex, and no other line of a block matches it.
C20_BlocksPartitionInput ==
    (NoSentinels /\ ~fstop) =>
        /\ \A n \in DOMAIN yielded : yielded[n] # <<>>
        /\ Concat(yielded) = SubSeq(finput, 1, fpos)
        /\ fended => fpos = Len(finput)
        /\ \A n \in DOMAIN yielded : n > 1 => StartIsMatch(yielded[n][1])
        /\ \A n \in DOMAIN yielded :
              \A i \in DOMAIN yielded[n] : i > 1 => ~StartIsMatch(yielded[n][i])

\* C20 witness: a BlockIterator has framed an input of three lines without
\* sentinels into two blocks, the first not opened by a start line, and has
\* returned None.
C20_Witness ==
    /\ fuser = "blocks" /\ ~fstop /\ NoSentinels
    /\ Len(finput) = 3 /\ fended
    /\ Len(yielded) = 2 /\ Len(yielded[1]) = 2
    /\ ~StartIsMatch(yielded[1][1])

\* A line the framer ends the stream at.
IsTerminator(line) == StartsWith(line, "0000") \/ StartsWith(line, "9001")

\* The framer has just read the first terminator line of the input.
AtFirstTerminator ==
    /\ fpos >= 1
    /\ IsTerminator(finput[fpos])
    /\ \A i \in 1..(fpos - 1) : ~IsTerminator(finput[i])

\* C40: the block framer loses no line that precedes a terminator: when it
\* has met a 9001 or a 0000 line, the lines read before it have all been
\* emitted, each in exactly one block.
C40_NoLineLostBeforeTerminator ==
    (fuser = "blocks" /\ AtFirstTerminator) =>
        Concat(yielded) = SubSeq(finput, 1, fpos - 1)

--------------------------------------------------------------------------
(* Claims about the endpoint handlers *)

\* C13: with the protocol cutoff set to N, the route list a per-protocol
\* routes endpoint returns (received, filtered, noexport) has at most N
\* routes, whatever prefix groups the worker pool sends.
C13_CutoffBoundsRoutes ==
    (hEndpoint \in ProtocolEndpoints /\ hResponse.kind = "ok" /\ hCutoff.some)
        => hResponse.routes <= hCutoff.value

InvalidParameter ==
    /\ hpc # "idle"
    /\ hEndpoint # "status"
    /\ \/ ~QueryValueParse(hTable).ok
       \/ hEndpoint = "table_peer" /\ ~QueryValueParse(hPeer).ok

\* C16: a routes handler called with a path parameter that fails QueryValue
\* validation reads and writes no cache, acquires no connection and writes
\* no command, and what it returns is the validation error (HTTP 500).
C16_ValidationBeforeEffects ==
    InvalidParameter =>
        /\ hEffects = NoEffects
        /\ hpc \in {"validate", "done"}
        /\ hpc = "done" =>
              /\ hResponse.kind = "error" /\ hResponse.code = 500
              /\ hResponse.reason \in {"is empty", "is too long",
                                        "contains invalid characters"}

\* C16 witness: the table/peer handler has returned the validation error of
\* its peer, the table being valid.
C16_Witness ==
    /\ hpc = "done" /\ hEndpoint = "table_peer"
    /\ QueryValueParse(hTable).ok /\ ~QueryValueParse(hPeer).ok
    /\ hResponse.kind = "error"

\* C17: when the daemon's reply contains a 9001 line the call ends with an
\* error response (HTTP 500): no successful response, no put into the
\* endpoint cache, no panic.
C17_DaemonErrorIs500 ==
    (hpc = "done" /\ \E i \in DOMAIN hReply : StartsWith(hReply[i], "9001"))
        => /\ hResponse.kind = "error" /\ hResponse.code = 500
           /\ hEffects.cachePuts = 0

--------------------------------------------------------------------------
(* Claims about the protocol parser and reader *)

\* C21: for every Protocol that Protocol::parse returns and every label k,
\* protocol.routes[k] is the sum of channel.routes_count[k] over the channels
\* (a channel without the label counting 0), as a number: the u32 sum has not
\* overflowed or wrapped around.
C21_RoutesAreChannelSums ==
    \A i \in DOMAIN pLog :
        pLog[i].result.tag = "Ok" =>
            LET p == pLog[i].result.protocol
            IN /\ DOMAIN p.routes = Labels(p.channels)
               /\ \A k \in DOMAIN p.routes : p.routes[k] = ChannelSum(p.channels, k)

\* C22: parsing the same block twice yields the same result, equal in every
\* field, the protocol level table and peer_table included.
C22_ParseIsDeterministic == pAgain.done => pAgain.second = pAgain.first

\* C23: RoutesCount::parse never panics, whatever the value of the Routes
\* line: no call of Protocol::parse ends in a panic of RoutesCount::parse.
C23_RoutesCountParseIsTotal ==
    \A i \in DOMAIN pLog :
        ~(pLog[i].result.tag = "Panic" /\ pLog[i].result.cause = "RoutesCount::parse")

\* C24: with the BGP filter set, every record the reader yields comes from a
\* block whose header line contains BGP.
C24_FilterSkipsNonBgpBlocks ==
    pFilter => \A i \in DOMAIN pRecords : ContainsBGP(pRecords[i].from[1])

\* Protocol::parse returns Ok on the block.
WellFormed(block) ==
    ProtocolParse(block, pFilter, pChecks, <<"ipv4", "ipv6">>).tag = "Ok"

\* The blocks of the records yielded so far.
YieldedFrom == [i \in DOMAIN pRecords |-> pRecords[i].from]

\* C25: a block whose parsing fails never makes the reader fail or end: the
\* reader does not panic, what it has yielded are the first well-formed blocks
\* of the reply in input order, and when it ends it has yielded every one.
C25_FailedBlockIsSkipped ==
    LET wellFormed == SelectSeq(BlocksOf(pInput, 0), WellFormed)
    IN /\ pOutcome # "panicked"
       /\ Len(YieldedFrom) <= Len(wellFormed)
       /\ YieldedFrom = SubSeq(wellFormed, 1, Len(YieldedFrom))
       /\ pOutcome = "ended" => YieldedFrom = wellFormed

\* The states of Protocol::parse on the block: the state before line i, and
\* then the state each line parsed from there on leaves, up to the line on
\* which the parse ends.
RECURSIVE StatesFrom(_, _, _, _, _)
StatesFrom(block, i, protocol, state, filter_bgp) ==
    IF i > Len(block) THEN <<state>>
    ELSE Only({ IF r.tag = "Ok"
                   THEN <<state>> \o StatesFrom(block, i + 1, r.protocol, r.state,
                                                filter_bgp)
                   ELSE <<state>>
                : r \in {parse_line(protocol, state, block[i], filter_bgp)} })

\* The states the parser goes through on the block, from Start.
StatesOf(block) == StatesFrom(block, 1, DefaultProtocol, State_Start, pFilter)

\* The transitions of the state machine as listed, and a line that leaves the
\* parser in Start.
ListedTransition(from, to) ==
    \/ from.name = "Start" /\ to.name \in {"Start", "Meta"}
    \/ from.name = "Meta" /\ to.name \in {"BgpState", "Channel"}
    \/ from.name = "BgpState" /\ to.name \in {"BgpState", "Channel"}
    \/ from.name = "Channel" /\ to.name = "Channel"

\* C31: the state of the protocol parser moves only along the listed
\* transitions, Start to Meta, Meta to BgpState or Channel, BgpState to
\* BgpState or Channel, Channel to Channel: once in a Channel state it never
\* returns to Start, Meta or BgpState for the rest of the block.
C31_OnlyListedTransitions ==
    \A i \in DOMAIN pLog :
        LET states == StatesOf(pLog[i].block)
        IN \A n \in 1..(Len(states) - 1) : ListedTransition(states[n], states[n + 1])

--------------------------------------------------------------------------
(* Claims about the route parser *)

\* The route blocks BlockGroup cuts a block into, from `pos` lines handed out.
RECURSIVE RouteBlocksOf(_, _)
RouteBlocksOf(lines, pos) ==
    LET b == BlockGroupNext(lines, pos)
    IN IF ~b.item.some THEN <<>>
       ELSE <<b.item.block>> \o RouteBlocksOf(lines, b.pos)

\* A route block Route::parse leaves without neighbor_id.
Neighborless(block) ==
    /\ block[1].kind # "0001"
    /\ RouteParse(block).tag = "Ok"
    /\ ~RouteParse(block).route.neighbor_id.some

HasNeighbor(block) == ~Neighborless(block)

\* C26: every route of a PrefixGroup that PrefixGroup::parse returns has
\* neighbor_id present, and a route block without one is dropped without any
\* effect on the rest: the call returns what it returns for the block without
\* its route blocks that have no neighbor_id.
C26_EmittedRoutesHaveNeighbor ==
    /\ rResult.tag = "Ok" =>
          \A i \in DOMAIN rResult.routes : rResult.routes[i].neighbor_id.some
    /\ rResult # NotParsedYet =>
          rResult = PrefixGroupParse(Concat(SelectSeq(RouteBlocksOf(rBlock, 0),
                                                      HasNeighbor)))

\* C26 witness: a group was returned with a route parsed after a route block
\* without neighbor_id that was dropped.
C26_Witness ==
    /\ rResult.tag = "Ok"
    /\ \E i, j \in DOMAIN rBlock :
          /\ i < j
          /\ rBlock[i].kind = "start" /\ rBlock[i].what = "plain"
          /\ rBlock[j].what = "header"
          /\ \E k \in DOMAIN rResult.routes :
                rResult.routes[k].neighbor_id = SomeString(rBlock[j].key)

\* C27: the first route of a returned PrefixGroup has a non-empty network,
\* every other route whose own header carried no prefix has the network of the
\* first, and no route of the group has an empty network.
C27_NetworksAreInherited ==
    (rResult.tag = "Ok" /\ rResult.routes # <<>>) =>
        /\ rResult.routes[1].network # ""
        /\ \A i \in DOMAIN rResult.routes :
              /\ rResult.routes[i].network # ""
              /\ (i > 1 /\ rResult.routes[i].header_prefix = "") =>
                    rResult.routes[i].network = rResult.routes[1].network

\* Route::parse on the block, line by line from line i on: the route and the
\* state before each line parsed and after the last one, up to the line on
\* which the parse ends.
RECURSIVE RouteRunFrom(_, _, _, _)
RouteRunFrom(block, i, route, state) ==
    IF i > Len(block) THEN <<[route |-> route, state |-> state]>>
    ELSE Only({ IF r.tag = "Ok"
                   THEN <<[route |-> route, state |-> state]>>
                        \o RouteRunFrom(block, i + 1, r.route, r.state)
                   ELSE <<[route |-> route, state |-> state]>>
                : r \in {route_parse_line(route, state, block[i])} })

RouteRun(block) == RouteRunFrom(block, 1, DefaultRoute, Route_Start)

\* The route blocks of the block that was parsed.
ParsedRouteBlocks ==
    IF rResult = NotParsedYet THEN <<>> ELSE RouteBlocksOf(rBlock, 0)

\* A line whose key is community, large_community or ext_community.
CommunityLine(line) ==
    line.what = "kv"
    /\ line.key \in {"bgp.community", "bgp.large_community", "bgp.ext_community"}

\* A line of an attribute the parser accepts.
AttributeLine(line) ==
    line.what = "kv" /\ line.key \in {"bgp." \o k : k \in BgpKeys}

\* The tuples of the type the line names that the route holds.
TuplesOf(route, line) ==
    CASE line.key = "bgp.community" -> route.communities
      [] line.key = "bgp.large_community" -> route.large_communities
      [] OTHER -> route.ext_communities

\* Line i of the block is parsed, it leaves the parser in the communities
\* substate of its type, and its tuples are added to the route.
Accumulated(block, run, i) ==
    /\ i + 1 <= Len(run)
    /\ run[i + 1].state = Route_Communities(NextType("None", block[i]))
    /\ block[i].value = "ok" =>
          TuplesOf(run[i + 1].route, block[i]) = TuplesOf(run[i].route, block[i]) + 1

\* C32: in the BGP attributes state a line whose key is community,
\* large_community or ext_community moves the parser into the matching
\* communities substate and its tuples are added to the route, whatever
\* attribute lines came before it, also without a local_pref line.
C32_CommunityKeyEntersSubstate ==
    \A b \in DOMAIN ParsedRouteBlocks :
        LET block == ParsedRouteBlocks[b]
            run == RouteRun(block)
        IN \A i \in DOMAIN block :
              (i <= Len(run) /\ run[i].state = Route_BGP /\ CommunityLine(block[i]))
                 => Accumulated(block, run, i)

\* C33: the parser moves from a communities substate back to the attributes
\* state: an accepted attribute line that follows a communities line is
\* parsed and recorded, and a communities line that follows such an attribute
\* line is still accumulated.
C33_AttributesAndCommunitiesAlternate ==
    \A b \in DOMAIN ParsedRouteBlocks :
        LET block == ParsedRouteBlocks[b]
            run == RouteRun(block)
        IN \A i \in DOMAIN block :
              (i <= Len(run) /\ run[i].state.name = "Communities"
                 /\ run[i].state.community_type # "None" /\ AttributeLine(block[i]))
                 => /\ i + 1 <= Len(run)
                    /\ AfterBgp(block[i].key) \in run[i + 1].route.attrs
                    /\ \A j \in DOMAIN block :
                          (j > i /\ CommunityLine(block[j])) => Accumulated(block, run, j)

--------------------------------------------------------------------------
(* Claims about blocks whose parsing fails *)

\* Nothing of request r is on its way any more.
NothingOnItsWay(r) ==
    /\ fpc[r] # "feeding"
    /\ QueuedJobs(r) = <<>>
    /\ HeldResults(r) = <<>>
    /\ sink[r] = <<>>

\* C28: a block whose parsing fails costs only that block: no worker thread
\* ends, the pool dispatcher and the feeders go on, and once nothing of a
\* request is on its way its handler, still receiving, has got the prefix
\* group of every block of the reply that parses.
C28_BadBlockCostsOnlyItself ==
    /\ \A w \in WorkerIds : walive[w]
    /\ dalive
    /\ \A r \in Requests :
          /\ fpc[r] # "panicked"
          /\ (rxOpen[r] /\ NothingOnItsWay(r)) =>
                \A i \in DOMAIN submitted[r] :
                    (~submitted[r][i].bad /\ ~submitted[r][i].panics) =>
                        BagIn(ParsePrefixGroup(submitted[r][i]), received[r])

--------------------------------------------------------------------------
(* Claims about the daemon dialogs of a handler *)

\* The handler has looked into its cache and found nothing.
CacheMiss == hEffects.cacheReads = 1 /\ hResponse.kind # "cached" /\ hpc # "fetch"

\* The connect to the daemon's socket failed.
ConnectFailed == hResponse = ErrorResponse("daemon unreachable")

\* C29: a handler invocation has at most one daemon dialog: served from the
\* cache it acquires no pooled connection and writes no command, on a cache
\* miss it acquires exactly one connection and writes exactly one command.
C29_OneDialogPerMiss ==
    /\ hEffects.acquires <= 1 /\ Len(hEffects.commands) <= 1
    /\ hResponse.kind = "cached" =>
          hEffects.acquires = 0 /\ hEffects.commands = <<>>
    /\ CacheMiss => hEffects.acquires = 1 /\ Len(hEffects.commands) = 1

\* C29 as amended: at most one dialog; served from the cache no connection is
\* acquired and no command written; on a cache miss exactly one connection is
\* acquired, and exactly one command is written if the socket opens, none if
\* the connect fails.
C29_OneDialogPerOpenedMiss ==
    /\ hEffects.acquires <= 1 /\ Len(hEffects.commands) <= 1
    /\ hResponse.kind = "cached" =>
          hEffects.acquires = 0 /\ hEffects.commands = <<>>
    /\ CacheMiss =>
          /\ hEffects.acquires = 1
          /\ Len(hEffects.commands) = IF ConnectFailed THEN 0 ELSE 1

\* C29 witness: a handler has answered a cache miss with the routes of one
\* dialog: one connection acquired, one command written.
C29_Witness ==
    /\ hpc = "done" /\ hResponse.kind = "ok" /\ hEndpoint = "table"
    /\ hEffects.cacheReads = 1 /\ hEffects.acquires = 1
    /\ Len(hEffects.commands) = 1

\* The daemon fetch of the call failed: the connect or the write of the
\* command returned an error.
FetchFailed ==
    /\ hpc = "done"
    /\ hEffects.cacheReads = 1
    /\ hResponse.kind = "error"

\* C37: when the daemon fetch of a cache miss fails (connect or write
\* error), the handler returns the error and leaves the endpoint cache as it
\* was: it has made no put, the only call of a handler that inserts,
\* replaces or evicts an entry.
C37_FailedFetchLeavesCache ==
    /\ FetchFailed => hEffects.cachePuts = 0 /\ hResponse.code = 500
    /\ (hpc = "done" /\ hEffects.acquires > 0 /\ Len(hEffects.commands) = 0)
          => hEffects.cachePuts = 0 /\ hResponse.kind = "error"

\* C37 witness: a routes handler has missed, acquired a connection, written
\* its command, got a write error, and has returned the error.
C37_Witness ==
    /\ FetchFailed
    /\ hEndpoint = "received"
    /\ hResponse = ErrorResponse("write failed")
    /\ hEffects.acquires = 1 /\ Len(hEffects.commands) = 1
    /\ hEffects.cachePuts = 0

--------------------------------------------------------------------------
(* Claims about concurrent requests on one endpoint cache *)

\* Every invocation has returned, and each of them had missed.
AllMissedAndDone ==
    /\ \A i \in Invocations : mpc[i] = "done"
    /\ mMissed = Invocations

\* The mutex is held only for the lookup and for the put.
MutexOnlyForGetAndPut ==
    \A i \in Invocations : mMutex = i => mpc[i] \in {"get", "put"}

\* No invocation stands before the mutex because of another one's dialog:
\* while no invocation is in its lookup or its put the mutex is free.
NoWaitForDialog ==
    (\A i \in Invocations : mpc[i] \notin {"get", "put"}) => mMutex = 0

\* C30: the cache mutex is held only for the lookup and for the put, never
\* across the daemon fetch; concurrent requests that all miss on the same key
\* all fetch and all put, none waiting on the mutex for another's dialog, and
\* the cache afterwards holds the value of the last put.
C30_MutexNotHeldAcrossFetch ==
    /\ MutexOnlyForGetAndPut
    /\ NoWaitForDialog
    /\ AllMissedAndDone =>
          /\ mFetched = Invocations
          /\ Len(mPuts) = NumInvocations
          /\ RequestKey \in DOMAIN mResponses
          /\ mResponses[RequestKey] = mPuts[Len(mPuts)]

\* The part of C30 about the mutex and the fetches, without the entry the
\* cache holds afterwards.
C30_MutexPart ==
    /\ MutexOnlyForGetAndPut
    /\ NoWaitForDialog
    /\ AllMissedAndDone => (mFetched = Invocations /\ Len(mPuts) = NumInvocations)

==========================================================================
